---------------------------- MODULE Spec2Model ----------------------------
(* Turn Orchestrator (LLMAgent.arespond / arespond_stream), Tool Dispatcher  *)
(* (LLMAgent._aexecute_tool_call) and Context Compactor (history_manager)    *)
(* of donkit-ai/ragops, as a state machine.                                  *)
(*                                                                           *)
(* Text is modelled symbolically: a text is a sequence of pieces, each piece *)
(* [s, o, n] being the n characters at offset o of the source string s.  A   *)
(* literal of the code is a piece whose source is the literal itself, an     *)
(* opaque text (a user prompt, a tool output) is a piece of a named source.  *)
(* Lengths, prefixes, suffixes and concatenations are computed as the code   *)
(* computes them, so the character constants of the code keep their values.  *)
EXTENDS Integers, Sequences, FiniteSets, TLC

VARIABLES
    messages,      \* the Conversation: the list[Message] the caller owns
    pc,            \* position of the orchestrator / caller
    mode,          \* "respond" | "stream" | "none": which entry point is running
    iter,          \* iterations of the for-loop already completed
    genCalls,      \* provider.generate / generate_stream requests of this invocation
    pending,       \* tool_calls being handled (resp.tool_calls / chunk.tool_calls)
    idx,           \* index into pending of the call being dispatched
    result,        \* what the invocation returned: [kind, text]
    events,        \* StreamEvents yielded in the current iteration of arespond_stream
    stream,        \* per-stream locals: [chunks, sawTools, fallback], with the streams
                   \* requested so far and whether a chunk carried tool calls
    supportsTools, \* provider.supports_capability(TOOL_CALLING)
    cancelAt,      \* where a session cancellation was delivered ("" if none)
    afterCancel,   \* [gens, appends] performed after a session cancellation
    nextId,        \* next tool-call id the provider hands out
    users,         \* user messages appended in this session
    toolCalls,     \* tool calls requested in this session
    faults,        \* failures the environment has injected in this session
    max_iterations, \* LLMAgent.max_iterations
    limits,        \* [users, calls, faults, tools]: what the environment may do
    cin,           \* input of the last function application (compaction, ...)
    cout,          \* its output
    op,            \* the last function applied: [name, ...parameters]
    dispatched,    \* the dispatch that has just returned: [name, env]
    R,             \* num_recent_pairs handed to _compress_tool_calls_in_turn
    _client,       \* MCPClient._client: the persistent Client, NoConn for None
    _transport,    \* MCPClient._transport: its StdioTransport, NoConn for None
    conns,         \* every Client/StdioTransport pair constructed: [kind, entered, running]
    tasks,         \* the coroutines running on the MCPClient: one frame each
    invoked,       \* names of the MCPClient methods called so far
    build          \* RagPipelineOrchestrator.build: its frame and the project row

vars == << messages, pc, mode, iter, genCalls, pending, idx, result, events, stream,
           supportsTools, cancelAt, afterCancel, nextId, users, toolCalls,
           faults, max_iterations, limits, cin, cout, op, dispatched, R,
           _client, _transport, conns, tasks, invoked, build >>

-----------------------------------------------------------------------------
(* Program constants of history_manager.py *)
HISTORY_TOKEN_THRESHOLD == 150000
HISTORY_KEEP_RECENT_TURNS == 1
EMERGENCY_MSG_MAX_CHARS == 4000
KEEP_RECENT_TOOL_PAIRS == 3
TOOL_RESULT_SUMMARY_CHARS == 500
\* _compress_tool_calls_in_turn: "Keep first 200 chars of each result as a hint"
PREVIEW_CHARS == 200
\* _estimate_token_count: per-message overhead
MSG_OVERHEAD == 4
\* _count_text_tokens: characters per token of the fallback estimate
CHARS_PER_TOKEN == 4

FALLBACK_TRUNCATION_NOTICE ==
    "[CONVERSATION HISTORY TRUNCATED]\nPrevious conversation context was too large to summarize. Key context may have been lost. The most recent interaction is preserved below.\n[END TRUNCATION NOTICE]"

HISTORY_SUMMARY_PROMPT ==
    "Summarize this conversation concisely.\nPreserve ALL key information: file paths, project names, configurations, decisions, errors.\nFormat as bullet points. Be brief but complete."

CANCELLED_TEXT == "Tool execution cancelled by user (Ctrl+C)"

-----------------------------------------------------------------------------
(* Symbolic text *)

Max(a, b) == IF a >= b THEN a ELSE b
Min(a, b) == IF a <= b THEN a ELSE b

\* A Python str literal.
Lit(s) == IF Len(s) = 0 THEN << >> ELSE << [s |-> s, o |-> 0, n |-> Len(s)] >>

\* An opaque text of n characters from the named source.
Opaque(src, n) == IF n = 0 THEN << >> ELSE << [s |-> src, o |-> 0, n |-> n] >>

RECURSIVE TextLen(_)
\* len(text)
TextLen(t) == IF t = << >> THEN 0 ELSE Head(t).n + TextLen(Tail(t))

RECURSIVE TakeText(_, _)
\* text[:k], k >= 0
TakeText(t, k) ==
    IF k <= 0 \/ t = << >> THEN << >>
    ELSE LET p == Head(t) IN
         IF p.n <= k THEN << p >> \o TakeText(Tail(t), k - p.n)
         ELSE << [p EXCEPT !.n = k] >>

RECURSIVE DropText(_, _)
\* text[d:], d >= 0
DropText(t, d) ==
    IF d <= 0 THEN t
    ELSE IF t = << >> THEN << >>
    ELSE LET p == Head(t) IN
         IF p.n <= d THEN DropText(Tail(t), d - p.n)
         ELSE << [p EXCEPT !.o = p.o + d, !.n = p.n - d] >> \o Tail(t)

\* text[-k:], k >= 0; Python reads text[-0:] as text[0:], the whole text
PySuffix(t, k) == IF k = 0 THEN t ELSE DropText(t, Max(0, TextLen(t) - k))

RECURSIVE Digits(_)
\* len(str(n)) for n >= 0
Digits(n) == IF n < 10 THEN 1 ELSE 1 + Digits(n \div 10)

\* str(n) inside an f-string: the piece records the number it prints
Num(n) == << [s |-> "int", o |-> n, n |-> Digits(n)] >>

\* whether needle (one literal) occurs as a whole piece of text t
HasPiece(t, lit) == \E i \in 1..Len(t) : t[i].s = lit /\ t[i].o = 0 /\ t[i].n = Len(lit)

-----------------------------------------------------------------------------
(* Messages *)

NoCalls == << >>
NoId == 0

\* parts: whether content is a list[ContentPart] (one part holding the text)
\* rather than a str
Message(role, content, tool_calls, tool_call_id, name) ==
    [role |-> role, content |-> content, tool_calls |-> tool_calls,
     tool_call_id |-> tool_call_id, name |-> name, parts |-> FALSE]

\* a message whose content is a list of one text part
PartsMsg(role, text) == [Message(role, text, NoCalls, NoId, "") EXCEPT !.parts = TRUE]

SystemMsg(text) == Message("system", text, NoCalls, NoId, "")
UserMsg(text) == Message("user", text, NoCalls, NoId, "")
AssistantMsg(text) == Message("assistant", text, NoCalls, NoId, "")

\* a provider tool-call id, "call_<k>"
IdText(id) == Lit("call_") \o Num(id)

ToolCall(id, name, arguments) == [id |-> id, name |-> name, arguments |-> arguments]

\* Python list slices
SeqTake(s, k) == SubSeq(s, 1, Min(Max(k, 0), Len(s)))
SeqDrop(s, k) == SubSeq(s, Min(Max(k, 0), Len(s)) + 1, Len(s))

\* a split that leaves the system messages where they are
SelectInPlace(msgs, keep) == IF keep THEN << >> ELSE msgs

RECURSIVE SelectRole(_, _)
\* [m for m in msgs if m.role == "system"] (keep = TRUE) or != "system" (FALSE)
SelectRole(msgs, keep) ==
    IF msgs = << >> THEN << >>
    ELSE IF (Head(msgs).role = "system") = keep
         THEN << Head(msgs) >> \o SelectRole(Tail(msgs), keep)
         ELSE SelectRole(Tail(msgs), keep)

-----------------------------------------------------------------------------
(* Token Estimator *)

\* the character-count fallback, taken when tiktoken is not importable
_count_text_tokens(text) == TextLen(text) \div CHARS_PER_TOKEN

RECURSIVE CallTokens(_)
CallTokens(tcs) ==
    IF tcs = << >> THEN 0
    ELSE _count_text_tokens(Lit(Head(tcs).name))
         + _count_text_tokens(Head(tcs).arguments)
         + CallTokens(Tail(tcs))

\* an estimate without the per-message overhead
MessageTokensNoOverhead(m) ==
    _count_text_tokens(m.content)
    + CallTokens(m.tool_calls)
    + (IF m.tool_call_id # NoId THEN _count_text_tokens(IdText(m.tool_call_id)) ELSE 0)

MessageTokens(m) ==
    MSG_OVERHEAD
    + _count_text_tokens(m.content)
    + CallTokens(m.tool_calls)
    + (IF m.tool_call_id # NoId THEN _count_text_tokens(IdText(m.tool_call_id)) ELSE 0)

RECURSIVE _estimate_token_count(_)
_estimate_token_count(msgs) ==
    IF msgs = << >> THEN 0
    ELSE MessageTokens(Head(msgs)) + _estimate_token_count(Tail(msgs))

-----------------------------------------------------------------------------
(* Turn Segmenter *)

RECURSIVE UserIndicesFrom(_, _)
\* [i for i, m in enumerate(messages) if m.role == "user"], 1-based
UserIndicesFrom(msgs, i) ==
    IF i > Len(msgs) THEN << >>
    ELSE (IF msgs[i].role = "user" THEN << i >> ELSE << >>) \o UserIndicesFrom(msgs, i + 1)

\* a segmenter that keeps the last turn whatever num_turns is
KeepLastTurnOnly(msgs, num_turns) ==
    LET user_indices == UserIndicesFrom(msgs, 1) IN
    IF user_indices = << >> THEN msgs
    ELSE SubSeq(msgs, user_indices[Len(user_indices)], Len(msgs))

\* a segmenter that keeps every message
KeepEverything(msgs, num_turns) == msgs

\* a segmenter that keeps nothing when fewer turns exist than were asked for
KeepNothingWhenShort(msgs, num_turns) ==
    LET user_indices == UserIndicesFrom(msgs, 1) IN
    IF user_indices = << >> THEN msgs
    ELSE IF num_turns > Len(user_indices) THEN << >>
    ELSE IF num_turns = 0 THEN SubSeq(msgs, user_indices[1], Len(msgs))
    ELSE SubSeq(msgs, user_indices[Len(user_indices) - num_turns + 1], Len(msgs))

_find_recent_complete_turns(msgs, num_turns) ==
    IF msgs = << >> THEN << >>
    ELSE LET user_indices == UserIndicesFrom(msgs, 1) IN
         IF user_indices = << >> THEN msgs
         ELSE LET turns_to_keep == Min(num_turns, Len(user_indices))
                  \* user_indices[-turns_to_keep]; Python reads index -0 as index 0
                  start_idx == IF turns_to_keep = 0 THEN user_indices[1]
                               ELSE user_indices[Len(user_indices) - turns_to_keep + 1]
              IN SubSeq(msgs, start_idx, Len(msgs))

-----------------------------------------------------------------------------
(* Tool-Call Grouper *)

IsLeading(m) == m.role \in {"user", "assistant"} /\ m.tool_calls = NoCalls

RECURSIVE LeadingLen(_)
\* number of messages put into `leading` before found_tool_call is set
LeadingLen(msgs) ==
    IF msgs = << >> THEN 0
    ELSE IF IsLeading(Head(msgs)) THEN 1 + LeadingLen(Tail(msgs)) ELSE 0

\* a grouping that opens a pair at every tool message as well
StartsPairAtResults(m) == m.role \in {"assistant", "tool"}

StartsPair(m) == m.role = "assistant" /\ m.tool_calls # NoCalls

RECURSIVE GroupPairs(_, _, _)
\* the loop over tool_sequence that fills `pairs`
GroupPairs(seq, current_pair, pairs) ==
    IF seq = << >>
    THEN IF current_pair # << >> THEN Append(pairs, current_pair) ELSE pairs
    ELSE IF StartsPair(Head(seq)) /\ current_pair # << >>
         THEN GroupPairs(Tail(seq), << Head(seq) >>, Append(pairs, current_pair))
         ELSE GroupPairs(Tail(seq), Append(current_pair, Head(seq)), pairs)

PairsOf(msgs) == GroupPairs(SeqDrop(msgs, LeadingLen(msgs)), << >>, << >>)

RECURSIVE CalledLines(_)
\* one summaries entry "- Called {name}" per tool call
CalledLines(tcs) ==
    IF tcs = << >> THEN << >>
    ELSE << Lit("- Called ") \o Lit(Head(tcs).name) >> \o CalledLines(Tail(tcs))

ResultLine(m) ==
    LET preview == TakeText(m.content, PREVIEW_CHARS)
                   \o (IF TextLen(m.content) > PREVIEW_CHARS THEN Lit("...") ELSE << >>)
        tool_name == IF m.name # "" THEN m.name ELSE "tool"
    IN Lit("  ") \o Lit(tool_name) \o Lit(" result: ") \o preview

RECURSIVE PairLines(_)
\* the summaries entries of one old pair
PairLines(pair) ==
    IF pair = << >> THEN << >>
    ELSE LET m == Head(pair) IN
         (IF StartsPair(m) THEN CalledLines(m.tool_calls)
          ELSE IF m.role = "tool" THEN << ResultLine(m) >>
          ELSE << >>) \o PairLines(Tail(pair))

RECURSIVE Summaries(_)
Summaries(old_pairs) ==
    IF old_pairs = << >> THEN << >>
    ELSE PairLines(Head(old_pairs)) \o Summaries(Tail(old_pairs))

RECURSIVE JoinLines(_)
\* "\n".join(lines)
JoinLines(lines) ==
    IF lines = << >> THEN << >>
    ELSE IF Len(lines) = 1 THEN Head(lines)
    ELSE Head(lines) \o Lit("\n") \o JoinLines(Tail(lines))

RECURSIVE Flatten(_)
Flatten(pairs) == IF pairs = << >> THEN << >> ELSE Head(pairs) \o Flatten(Tail(pairs))

DIGEST_HEAD == "[COMPRESSED TOOL HISTORY]\n"
DIGEST_TAIL == "\n[END COMPRESSED TOOL HISTORY]"

\* pairs[:-n] and pairs[-n:] as Python evaluates them for n >= 0
OldPairs(pairs, n) == IF n = 0 THEN << >> ELSE SeqTake(pairs, Len(pairs) - n)
RecentPairs(pairs, n) == IF n = 0 THEN pairs ELSE SeqDrop(pairs, Len(pairs) - n)

_compress_tool_calls_in_turn(msgs_to_keep, num_recent_pairs) ==
    IF msgs_to_keep = << >> THEN msgs_to_keep
    ELSE LET leading == SeqTake(msgs_to_keep, LeadingLen(msgs_to_keep))
             tool_sequence == SeqDrop(msgs_to_keep, LeadingLen(msgs_to_keep))
             pairs == GroupPairs(tool_sequence, << >>, << >>)
         IN IF tool_sequence = << >> THEN msgs_to_keep
            ELSE IF Len(pairs) <= num_recent_pairs THEN msgs_to_keep
            ELSE LET old_pairs == OldPairs(pairs, num_recent_pairs)
                     recent_pairs == RecentPairs(pairs, num_recent_pairs)
                     summary_text == Lit(DIGEST_HEAD) \o JoinLines(Summaries(old_pairs))
                                     \o Lit(DIGEST_TAIL)
                 IN leading \o << AssistantMsg(summary_text) >> \o Flatten(recent_pairs)

-----------------------------------------------------------------------------
(* Summarizer input and Emergency Truncator *)

ShrinkOne(m) ==
    IF m.role = "tool" /\ ~m.parts /\ TextLen(m.content) > TOOL_RESULT_SUMMARY_CHARS
    THEN [m EXCEPT !.content = TakeText(m.content, TOOL_RESULT_SUMMARY_CHARS)
                               \o Lit("\n... [truncated, was ") \o Num(TextLen(m.content))
                               \o Lit(" chars]")]
    ELSE m

_shrink_tool_results(msgs) == [i \in 1..Len(msgs) |-> ShrinkOne(msgs[i])]

\* a truncation whose kept tail leaves no room for the notice
TruncateOneNoSlack(m) ==
    IF ~m.parts /\ TextLen(m.content) > EMERGENCY_MSG_MAX_CHARS
    THEN LET keep_start == (EMERGENCY_MSG_MAX_CHARS * 6) \div 10
             keep_end == EMERGENCY_MSG_MAX_CHARS - keep_start
             notice == Lit("\n\n[... truncated ") \o Num(TextLen(m.content)) \o Lit(" -> ")
                       \o Num(EMERGENCY_MSG_MAX_CHARS) \o Lit(" chars ...]\n\n")
         IN [m EXCEPT !.content = TakeText(m.content, keep_start) \o notice
                                  \o PySuffix(m.content, keep_end)]
    ELSE m

TruncateOne(m) ==
    IF ~m.parts /\ TextLen(m.content) > EMERGENCY_MSG_MAX_CHARS
    THEN LET keep_start == (EMERGENCY_MSG_MAX_CHARS * 6) \div 10
             keep_end == EMERGENCY_MSG_MAX_CHARS - keep_start - 100
             orig_len == TextLen(m.content)
             notice == Lit("\n\n[... truncated ") \o Num(orig_len) \o Lit(" -> ")
                       \o Num(EMERGENCY_MSG_MAX_CHARS) \o Lit(" chars ...]\n\n")
         IN [m EXCEPT !.content = TakeText(m.content, keep_start) \o notice
                                  \o PySuffix(m.content, keep_end)]
    ELSE m

_emergency_truncate_messages(msgs) == [i \in 1..Len(msgs) |-> TruncateOne(msgs[i])]

-----------------------------------------------------------------------------
(* Context Compactor *)

SUMMARY_HEAD == "[CONVERSATION HISTORY SUMMARY]\n"
SUMMARY_TAIL == "\n[END SUMMARY]"

\* a threshold test that sends a conversation of exactly the threshold to compaction
FitsThresholdStrict(estimated_tokens) == estimated_tokens < HISTORY_TOKEN_THRESHOLD

\* `if estimated_tokens <= HISTORY_TOKEN_THRESHOLD: return history`
FitsThreshold(estimated_tokens) == estimated_tokens <= HISTORY_TOKEN_THRESHOLD

\* a fallback that puts the notice into a user message
NoticeMsgAsUser == UserMsg(Lit(FALLBACK_TRUNCATION_NOTICE))

\* Message(role="assistant", content=FALLBACK_TRUNCATION_NOTICE)
NoticeMsg == AssistantMsg(Lit(FALLBACK_TRUNCATION_NOTICE))

\* The request compress_history_if_needed sends to the summarizer.
SummaryRequest(msgs_to_summarize) ==
    _shrink_tool_results(msgs_to_summarize) \o << UserMsg(Lit(HISTORY_SUMMARY_PROMPT)) >>

\* sum = [ok, content]: what provider.generate does with the summarization
\* request: returns a response with that content, or raises an Exception.
\* The value is [out, gens, request]: the returned list, the number of
\* provider.generate calls made, and the messages of the request (<< >> if none).
compress_history_if_needed(history, sum) ==
    LET estimated_tokens == _estimate_token_count(history) IN
    IF FitsThreshold(estimated_tokens)
    THEN [out |-> history, gens |-> 0, request |-> << >>]
    ELSE
    LET system_msgs == SelectRole(history, TRUE)
        conversation_msgs == SelectRole(history, FALSE)
        msgs_to_keep == _find_recent_complete_turns(conversation_msgs,
                                                    HISTORY_KEEP_RECENT_TURNS)
        msgs_to_summarize == SeqTake(conversation_msgs,
                                     Len(conversation_msgs) - Len(msgs_to_keep))
        compressed == _compress_tool_calls_in_turn(msgs_to_keep, KEEP_RECENT_TOOL_PAIRS)
    IN
    IF msgs_to_summarize = << >>
    THEN LET new_history == system_msgs \o compressed IN
         IF FitsThreshold(_estimate_token_count(new_history))
         THEN [out |-> new_history, gens |-> 0, request |-> << >>]
         ELSE [out |-> system_msgs \o _emergency_truncate_messages(compressed),
               gens |-> 0, request |-> << >>]
    ELSE
    IF sum.ok
    THEN LET summary_text == Lit(SUMMARY_HEAD) \o sum.content \o Lit(SUMMARY_TAIL) IN
         [out |-> system_msgs \o << AssistantMsg(summary_text) >> \o compressed,
          gens |-> 1, request |-> SummaryRequest(msgs_to_summarize)]
    ELSE LET new_history == system_msgs \o << NoticeMsg >> \o compressed
         IN IF ~FitsThreshold(_estimate_token_count(new_history))
            THEN [out |-> system_msgs \o << NoticeMsg >>
                          \o _emergency_truncate_messages(compressed),
                  gens |-> 1, request |-> SummaryRequest(msgs_to_summarize)]
            ELSE [out |-> new_history, gens |-> 1,
                  request |-> SummaryRequest(msgs_to_summarize)]

-----------------------------------------------------------------------------
(* Tool Dispatcher *)

\* length of the text a tool hands back
ResultLen == 700

\* LLMAgent.local_tools and LLMAgent.mcp_tools of the modelled agent
LocalTools == {"read_file", "time_now", "process_documents"}
\* local tools whose handler is a coroutine function: AgentTool(..., is_async=True)
AsyncTools == {"process_documents"}
McpTools == {"chunker_chunk_documents", "query_search_documents", "time_now"}
\* names for which _aexecute_tool_call runs policy before the handler
HookTools == {"vectorstore_vectorstore_load", "query_search_documents", "query_get_rag_prompt"}

\* a resolution that looks at the MCP tools first
FindToolMcpFirst(name) ==
    IF name \in McpTools THEN "mcp"
    ELSE IF name \in LocalTools THEN "local"
    ELSE "none"

\* which registry resolves the name: local handlers first, MCP tools second
_find_tool(name) ==
    IF name \in LocalTools THEN "local"
    ELSE IF name \in McpTools THEN "mcp"
    ELSE "none"

\* What the environment does during one dispatch:
\*   hook: "pass" (the policy returns), "raise" (it raises Exception(ERR)),
\*         "cancel" (CancelledError while it awaits)
\*   how:  "text" (the handler returns a str), "json" (it returns a structure),
\*         "raise" (Exception(ERR)), "kbdint" (KeyboardInterrupt),
\*         "cancel" (CancelledError while the MCP call is awaited),
\*         "coroutine" (the call of a coroutine function: it hands back a
\*         coroutine object and runs nothing of the body)
ERR == "boom"

Hows(name) ==
    CASE _find_tool(name) = "local" /\ name \in AsyncTools -> {"coroutine"}
      [] _find_tool(name) = "local" /\ name \notin AsyncTools ->
           {"text", "json", "raise", "kbdint"}
      [] _find_tool(name) = "mcp" -> {"text", "raise", "kbdint", "cancel"}
      [] OTHER -> {"none"}

Hooks(name) == IF name \in HookTools THEN {"pass", "raise", "cancel"} ELSE {"pass"}

Envs(name) == { [hook |-> h, how |-> w] : h \in Hooks(name), w \in Hows(name) }

\* the str the handler registered for `name` in registry `reg` computes
HandlerValue(reg, name) == Opaque(reg \o ":" \o name, ResultLen)

\* what the call hands back: a str, a structure json.dumps can encode, or a
\* coroutine object, which json.dumps cannot encode
ToolOutput(name, how) ==
    CASE how = "text" ->
           [str |-> TRUE, json |-> TRUE, text |-> HandlerValue(_find_tool(name), name)]
      [] how = "coroutine" ->
           [str |-> FALSE, json |-> FALSE, text |-> Opaque("coroutine object " \o name, 40)]
      [] OTHER ->
           [str |-> FALSE, json |-> TRUE, text |-> Opaque("obj:" \o name, ResultLen)]

\* _serialize_tool_result: a str passes, anything else goes through json.dumps,
\* and what json.dumps rejects through str()
_serialize_tool_result(output) ==
    IF output.str THEN output.text
    ELSE IF output.json THEN Lit("{") \o output.text \o Lit("}")
    ELSE Lit("<") \o output.text \o Lit(">")

\* an error reply that drops the message of the exception
ErrorTextBare(msg) == Lit("Error: ")

\* an error reply that is the message of the exception and nothing else
ErrorTextUnmarked(msg) == Lit(msg)

ErrorText(msg) == Lit("Error: ") \o Lit(msg)

\* a dispatcher that reports a cancellation as an ordinary error
CancelReplyAsError == Lit("Error: ") \o Lit("CancelledError")

\* `except KeyboardInterrupt` and `except asyncio.CancelledError`
CancelReply == Lit(CANCELLED_TEXT)

\* the str _aexecute_tool_call returns
_aexecute_tool_call(name, env) ==
    IF env.hook = "raise" THEN ErrorText(ERR)
    ELSE IF env.hook = "cancel" THEN CancelReply
    ELSE IF _find_tool(name) = "none" THEN << >>
    ELSE CASE env.how \in {"text", "json", "coroutine"} ->
                _serialize_tool_result(ToolOutput(name, env.how))
           [] env.how = "raise" -> ErrorText(ERR)
           [] env.how \in {"kbdint", "cancel"} -> CancelReply

\* Python values of tool arguments: py is the type; for a dict, keys are its
\* keys; for a str, doc says what JSON document the text is ("object" with
\* those keys, "array", "null", "number", "invalid" for text json cannot
\* decode, "empty" for the empty str)
PyValue(py, doc, keys) == [py |-> py, doc |-> doc, keys |-> keys]
EmptyDict == PyValue("dict", "", {})

\* tc.function.arguments as providers hand it over
RawArgs ==
    { PyValue("dict", "", ks) : ks \in {{}, {"path"}} }
    \cup { PyValue("str", "object", ks) : ks \in {{}, {"path"}} }
    \cup { PyValue("str", doc, {}) : doc \in {"empty", "invalid", "array", "null", "number"} }
    \cup { PyValue("None", "", {}), PyValue("list", "", {}) }

\* json.loads: the Python value of the document, or an exception
json_loads(text) ==
    CASE text.py # "str" -> [raised |-> TRUE, value |-> EmptyDict]
      [] text.doc \in {"invalid", "empty"} -> [raised |-> TRUE, value |-> EmptyDict]
      [] text.doc = "object" -> [raised |-> FALSE, value |-> PyValue("dict", "", text.keys)]
      [] text.doc = "array" -> [raised |-> FALSE, value |-> PyValue("list", "", {})]
      [] text.doc = "null" -> [raised |-> FALSE, value |-> PyValue("None", "", {})]
      [] text.doc = "number" -> [raised |-> FALSE, value |-> PyValue("int", "", {})]

\* _parse_tool_args: a dict passes, anything else goes through
\* json.loads(raw or "{}"), and an exception gives {}
_parse_tool_args(raw) ==
    IF raw.py = "dict" THEN raw
    ELSE LET falsy == raw.py = "None" \/ (raw.py = "str" /\ raw.doc = "empty")
             decoded == json_loads(IF falsy THEN PyValue("str", "object", {}) ELSE raw)
         IN IF decoded.raised THEN EmptyDict ELSE decoded.value

\* whether the dispatch suspends (awaits) before it returns
Awaits(name) == _find_tool(name) = "mcp" \/ name \in HookTools

\* a tool message that forgets which call it answers
ToolMsgUnlinked(tc, result_str) == Message("tool", result_str, NoCalls, NoId, tc.name)

ToolMsg(tc, result_str) == Message("tool", result_str, NoCalls, tc.id, tc.name)

\* _append_synthetic_assistant_turn
\* an assistant turn that carries a text of its own
SyntheticAssistantWithText(tool_calls) ==
    Message("assistant", Lit("calling tools"), tool_calls, NoId, "")

\* an assistant turn that forgets the calls it stands for
SyntheticAssistantBare(tool_calls) == Message("assistant", << >>, NoCalls, NoId, "")

SyntheticAssistant(tool_calls) == Message("assistant", << >>, tool_calls, NoId, "")

-----------------------------------------------------------------------------
(* Bounds of the model *)

\* LLMAgent.max_iterations of the agent of Spec
MaxIterations == 3
\* LLMAgent.max_iterations of the agent of SpecSession
SessionIterations == 2
\* tool calls one provider response or chunk may carry
MaxCalls == 2
\* tool calls the provider requests in one session of Spec
MaxToolCalls == 3
\* tool calls the provider requests in one session of SpecSession
SessionToolCalls == 4
\* user messages the caller appends in one session of SpecSession
MaxUsers == 2
\* failures (of a tool, of the stream, a cancellation) the environment injects in
\* one session of Spec
MaxFaults == 1
\* chunks of one provider stream
MaxChunks == 2

\* lengths of the texts the environment supplies
ShortLen == 12
HugeLen == 700000

\* tool names the provider asks for in a session of Spec and of SpecSession
AskedTools == {"read_file", "chunker_chunk_documents", "no_such_tool"}
SessionTools == {"chunker_chunk_documents"}

-----------------------------------------------------------------------------
(* Session state machine: caller, arespond, arespond_stream *)

\* coroutines that may run on one MCPClient at a time
MaxTasks == 2
\* Client/StdioTransport pairs constructed in one run
MaxConns == 3

\* None in _client / _transport
NoConn == 0

\* a freshly constructed StdioTransport with its Client: no session entered, no
\* subprocess yet
Conn(kind) == [kind |-> kind, entered |-> FALSE, running |-> FALSE]

\* the frame of a coroutine: op is the method, conn the Client it is using,
\* raised the error of the persistent path, dropped the persistent Client its
\* disconnect() took down, attempts the temporary connections it has opened
NoTask == [op |-> "none", pc |-> "done", conn |-> NoConn, via |-> "none",
           outcome |-> "none", raised |-> "none", dropped |-> NoConn, attempts |-> 0]

\* RagPipelineOrchestrator.build not called; the project row does not exist
NoBuild == [pc |-> "idle", db_type |-> "", status |-> "absent", written |-> << >>,
            steps |-> << >>, errors |-> << >>, outcome |-> "none",
            failed_step |-> "", how |-> "", rag_config |-> FALSE]

ServicesIdle ==
    /\ _client = NoConn
    /\ _transport = NoConn
    /\ conns = << >>
    /\ tasks = [t \in 1..MaxTasks |-> NoTask]
    /\ invoked = {}
    /\ build = NoBuild

\* the MCP client and the pipeline build: idle while the agent runs
mcpVars == << _client, _transport, conns, tasks, invoked >>
cfgVars == << supportsTools, max_iterations, limits, R, mcpVars, build >>
fnVars == << cin, cout, op >>

NoResult == [kind |-> "none", text |-> << >>]
Returned(text) == [kind |-> "returned", text |-> text]
Raised(what) == [kind |-> "raised", text |-> Lit(what)]
NoStream == [chunks |-> 0, sawTools |-> FALSE, fallback |-> "none", fbContent |-> << >>,
             fbGens |-> 0, requested |-> 0, carried |-> FALSE]
NoDispatch == [name |-> "", env |-> [hook |-> "", how |-> ""]]
NoOp == [name |-> "none"]
NoCancel == [gens |-> 0, appends |-> 0]

Last(s) == s[Len(s)]

InitSession(its, lim, histories, catalogs) ==
    /\ messages \in histories
    /\ pc = "idle"
    /\ mode = "none"
    /\ iter = 0
    /\ genCalls = 0
    /\ pending = << >>
    /\ idx = 0
    /\ result = NoResult
    /\ events = << >>
    /\ stream = NoStream
    /\ supportsTools \in catalogs
    /\ cancelAt = ""
    /\ afterCancel = NoCancel
    /\ nextId = 1
    /\ users = 0
    /\ toolCalls = 0
    /\ faults = 0
    /\ max_iterations = its
    /\ limits = lim
    /\ cin = << >>
    /\ cout = << >>
    /\ op = NoOp
    /\ dispatched = NoDispatch
    /\ R = KEEP_RECENT_TOOL_PAIRS
    /\ ServicesIdle

\* one turn, every failure the environment can inject
Init ==
    InitSession(MaxIterations,
                [users |-> 1, calls |-> MaxToolCalls, faults |-> MaxFaults,
                 tools |-> AskedTools],
                { << >>, << SystemMsg(Opaque("system", ShortLen)) >> }, BOOLEAN)

\* Once the caller goes on, the frame of the finished invocation is gone.
DropFrame ==
    /\ mode' = "none"
    /\ iter' = 0
    /\ genCalls' = 0
    /\ pending' = << >>
    /\ idx' = 0
    /\ events' = << >>
    /\ stream' = NoStream
    /\ dispatched' = NoDispatch

\* the caller appends the user's input
AppendUser ==
    /\ pc = "idle"
    /\ users < limits.users
    /\ \E n \in {ShortLen, HugeLen} :
         messages' = Append(messages, UserMsg(Opaque("user", n)))
    /\ users' = users + 1
    /\ result' = NoResult
    /\ cin' = << >> /\ cout' = << >> /\ op' = NoOp
    /\ DropFrame
    /\ UNCHANGED << pc, cancelAt, afterCancel, nextId, toolCalls, faults, cfgVars >>

\* the caller records the reply arespond returned
AppendReply ==
    /\ pc = "idle"
    /\ result.kind = "returned"
    /\ result.text # << >>
    /\ messages' = Append(messages, AssistantMsg(result.text))
    /\ result' = NoResult
    /\ cin' = << >> /\ cout' = << >> /\ op' = NoOp
    /\ DropFrame
    /\ UNCHANGED << pc, cancelAt, afterCancel, nextId, users, toolCalls, faults, cfgVars >>

\* what provider.generate may answer the summarization request with
Sums == { [ok |-> TRUE, content |-> Opaque("summary", 40)],
          [ok |-> FALSE, content |-> << >>] }

\* history = await compress_history_if_needed(history, provider)
Compress ==
    /\ pc = "idle"
    /\ op.name # "compress"
    /\ \E sum \in Sums :
         LET r == compress_history_if_needed(messages, sum) IN
           /\ messages' = r.out
           /\ cin' = messages
           /\ cout' = r.out
           /\ op' = [name |-> "compress", gens |-> r.gens, ok |-> sum.ok]
    /\ DropFrame
    /\ UNCHANGED << pc, result, cancelAt, afterCancel, nextId, users, toolCalls, faults,
                    cfgVars >>

\* the caller invokes arespond(messages) or arespond_stream(messages)
Start(m) ==
    /\ pc = "idle"
    /\ messages # << >>
    /\ Last(messages).role = "user"
    /\ result = NoResult
    /\ pc' = "loop"
    /\ mode' = m
    /\ iter' = 0
    /\ genCalls' = 0
    /\ result' = NoResult
    /\ events' = << >>
    /\ stream' = NoStream
    /\ pending' = << >> /\ idx' = 0
    /\ cin' = << >> /\ cout' = << >> /\ op' = NoOp
    /\ dispatched' = NoDispatch
    /\ UNCHANGED << messages, cancelAt, afterCancel, nextId, users, toolCalls, faults,
                    cfgVars >>

StartRespond == Start("respond")
StartStream == Start("stream")

\* bookkeeping of what happens after a session cancellation was delivered
CountGen == IF cancelAt # "" THEN [afterCancel EXCEPT !.gens = @ + 1] ELSE afterCancel
CountAppend == IF cancelAt # "" THEN [afterCancel EXCEPT !.appends = @ + 1] ELSE afterCancel

\* the invocation ends: arespond returns text, the generator of arespond_stream ends
Return(text) ==
    /\ pc' = "idle"
    /\ result' = Returned(text)

RECURSIVE MakeCalls(_, _)
\* the tool calls of one provider response: the names asked for, with fresh ids
MakeCalls(names, id) ==
    IF names = << >> THEN << >>
    ELSE << ToolCall(id, Head(names), Lit("{}")) >> \o MakeCalls(Tail(names), id + 1)

\* asking for a tool neither registry knows is a failure of the environment
CallNames ==
    { c \in UNION { [1..n -> limits.tools] : n \in 1..MaxCalls } :
        /\ toolCalls + Len(c) <= limits.calls
        /\ faults + Cardinality({ i \in 1..Len(c) : _find_tool(c[i]) = "none" })
             <= limits.faults }

Unknown(calls) == Cardinality({ i \in 1..Len(calls) : _find_tool(calls[i].name) = "none" })

\* a provider response: tool calls, text content, or neither
Responses ==
    { [calls |-> MakeCalls(ns, nextId), content |-> << >>] : ns \in CallNames }
    \cup { [calls |-> << >>, content |-> Opaque("answer", ShortLen)],
           [calls |-> << >>, content |-> << >>] }

_should_execute_tools(resp) == supportsTools /\ resp.calls # << >>

\* a loop that runs one iteration too many
LoopContinuesInclusive(done) == done <= max_iterations

\* `for _ in range(self.max_iterations)`: whether another iteration runs
LoopContinues(done) == done < max_iterations

\* an arespond that hands back whatever the first response held
NeverRetry(content) == FALSE

\* `if not resp.content`: arespond asks once more, without a tool catalog
NeedsRetry(content) == content = << >>

\* arespond: top of the for-loop, the generate request is issued
RespondLoop ==
    /\ pc = "loop" /\ mode = "respond"
    /\ IF LoopContinues(iter)
       THEN /\ pc' = "gen"
            /\ genCalls' = genCalls + 1
            /\ afterCancel' = CountGen
            /\ UNCHANGED result
       ELSE /\ Return(<< >>)
            /\ UNCHANGED << genCalls, afterCancel >>
    /\ dispatched' = NoDispatch
    /\ UNCHANGED << messages, mode, iter, pending, idx, events, stream,
                    cancelAt, nextId, users, toolCalls, faults, cfgVars, fnVars >>

\* _ahandle_tool_calls, first step: the synthetic assistant turn
BeginToolCalls(tool_calls, next) ==
    /\ messages' = Append(messages, SyntheticAssistant(tool_calls))
    /\ pending' = tool_calls
    /\ idx' = 1
    /\ pc' = next
    /\ nextId' = nextId + Len(tool_calls)
    /\ toolCalls' = toolCalls + Len(tool_calls)
    /\ faults' = faults + Unknown(tool_calls)
    /\ afterCancel' = CountAppend

\* arespond: provider.generate returns
RespondGenerate ==
    /\ pc = "gen" /\ mode = "respond"
    /\ \E resp \in Responses :
         IF _should_execute_tools(resp)
         THEN /\ BeginToolCalls(resp.calls, "tools")
              /\ UNCHANGED << genCalls, result >>
         ELSE IF NeedsRetry(resp.content)
         THEN /\ pc' = "retry"
              /\ genCalls' = genCalls + 1
              /\ afterCancel' = CountGen
              /\ UNCHANGED << messages, pending, idx, nextId, toolCalls, faults, result >>
         ELSE /\ Return(resp.content)
              /\ UNCHANGED << messages, pending, idx, nextId, toolCalls, faults, genCalls,
                              afterCancel >>
    /\ dispatched' = NoDispatch
    /\ UNCHANGED << mode, iter, events, stream, cancelAt, users, cfgVars, fnVars >>

\* arespond: the defensive retry without a tool catalog returns
RespondRetry ==
    /\ pc = "retry"
    /\ \E retry_resp \in Responses : Return(retry_resp.content)
    /\ dispatched' = NoDispatch
    /\ UNCHANGED << messages, mode, iter, genCalls, pending, idx, events, stream,
                    cancelAt, afterCancel, nextId, users, toolCalls, faults,
                    cfgVars, fnVars >>

\* _ahandle_tool_calls: _aexecute_tool_call is called for pending[idx]
ToolStart ==
    /\ pc = "tools"
    /\ idx <= Len(pending)
    /\ pc' = "exec"
    /\ dispatched' = NoDispatch
    /\ UNCHANGED << messages, mode, iter, genCalls, pending, idx, result, events, stream,
                    cancelAt, afterCancel, nextId, users, toolCalls, faults,
                    cfgVars, fnVars >>

\* a dispatch in which something fails
IsFault(name, env) == _find_tool(name) # "none" /\ (env.hook # "pass" \/ env.how # "text")

\* what the environment may do during the dispatch of pending[idx]
SessionEnvs ==
    { env \in Envs(pending[idx].name) :
        IsFault(pending[idx].name, env) => faults < limits.faults }

\* the tool message of pending[idx] is appended; after the last one the loop continues
FinishTool(result_str, more, done) ==
    /\ messages' = Append(messages, ToolMsg(pending[idx], result_str))
    /\ idx' = idx + 1
    /\ IF idx < Len(pending)
       THEN pc' = more /\ UNCHANGED iter
       ELSE pc' = done /\ iter' = IF done = "loop" THEN iter + 1 ELSE iter

\* _ahandle_tool_calls: _aexecute_tool_call returns and the tool message is appended
ToolReturn ==
    /\ pc = "exec"
    /\ \E env \in SessionEnvs :
         /\ FinishTool(_aexecute_tool_call(pending[idx].name, env), "tools", "loop")
         /\ faults' = IF IsFault(pending[idx].name, env) THEN faults + 1 ELSE faults
         /\ dispatched' = [name |-> pending[idx].name, env |-> env]
    /\ afterCancel' = CountAppend
    /\ UNCHANGED << mode, genCalls, pending, result, events, stream,
                    cancelAt, nextId, users, toolCalls, cfgVars, fnVars >>

Event(type, name, text) == [type |-> type, tool_name |-> name, content |-> text]

\* what self.provider.generate_stream(request) gives back
StreamKinds == {"stream", "None", "not_iterable", "other_type_error"}

\* arespond_stream: top of the for-loop, generate_stream is called
StreamLoop ==
    /\ pc = "loop" /\ mode = "stream"
    /\ IF LoopContinues(iter)
       THEN /\ \E kind \in { k \in StreamKinds : k # "stream" => faults < limits.faults } :
                 CASE kind = "stream" ->
                        /\ pc' = "schunk"
                        /\ genCalls' = genCalls + 1
                        /\ stream' = [NoStream EXCEPT !.requested = stream.requested + 1]
                        /\ UNCHANGED << result, faults >>
                   [] kind \in {"None", "not_iterable"} ->
                        \* stream is None, or `async for` raises the TypeError the
                        \* handler recognises: provider.generate(request) is awaited
                        /\ pc' = "fgen"
                        /\ genCalls' = genCalls + 2
                        /\ stream' = [NoStream EXCEPT !.fallback = kind, !.fbGens = 1,
                                                       !.requested = stream.requested + 1]
                        /\ faults' = faults + 1
                        /\ UNCHANGED result
                   [] OTHER ->
                        \* any other TypeError is re-raised
                        /\ pc' = "aborted"
                        /\ genCalls' = genCalls + 1
                        /\ stream' = [NoStream EXCEPT !.requested = stream.requested + 1]
                        /\ faults' = faults + 1
                        /\ result' = Raised("TypeError")
            /\ afterCancel' = CountGen
            /\ events' = << >>
       ELSE /\ Return(<< >>)
            /\ UNCHANGED << genCalls, stream, afterCancel, faults, events >>
    /\ dispatched' = NoDispatch
    /\ UNCHANGED << messages, mode, iter, pending, idx,
                    cancelAt, nextId, users, toolCalls, cfgVars, fnVars >>

\* arespond_stream: the fallback provider.generate returns
StreamFallback ==
    /\ pc = "fgen"
    /\ \E resp \in Responses :
         IF _should_execute_tools(resp)
         THEN /\ BeginToolCalls(resp.calls, "tools")
              /\ UNCHANGED << result, events, stream >>
         ELSE /\ Return(<< >>)
              /\ stream' = [stream EXCEPT !.fbContent = resp.content,
                                          !.fallback = "done"]
              /\ events' = IF resp.content # << >>
                           THEN Append(events, Event("CONTENT", "", resp.content))
                           ELSE events
              /\ UNCHANGED << messages, pending, idx, nextId, toolCalls, faults,
                              afterCancel >>
    /\ dispatched' = NoDispatch
    /\ UNCHANGED << mode, iter, genCalls, cancelAt, users, cfgVars, fnVars >>

\* a chunk of the provider stream: text, tool calls, or both
Chunks ==
    { r \in Responses : r.calls # << >> \/ r.content # << >> }
    \cup { [r EXCEPT !.content = Opaque("answer", ShortLen)] :
             r \in { q \in Responses : Len(q.calls) = 1 } }

\* arespond_stream: `async for chunk in stream` delivers the next chunk
StreamChunk ==
    /\ pc = "schunk"
    /\ stream.chunks < MaxChunks
    /\ \E chunk \in Chunks :
         /\ events' = IF chunk.content # << >>
                      THEN Append(events, Event("CONTENT", "", chunk.content))
                      ELSE events
         /\ IF chunk.calls # << >> /\ supportsTools
            THEN /\ BeginToolCalls(chunk.calls, "sstart")
                 /\ stream' = [stream EXCEPT !.chunks = @ + 1, !.sawTools = TRUE,
                                             !.carried = TRUE]
            ELSE /\ stream' = [stream EXCEPT !.chunks = @ + 1,
                                             !.carried = @ \/ chunk.calls # << >>]
                 /\ UNCHANGED << messages, pending, idx, pc, nextId, toolCalls, faults,
                                 afterCancel >>
    /\ dispatched' = NoDispatch
    /\ UNCHANGED << mode, iter, genCalls, result, cancelAt, users, cfgVars, fnVars >>

\* a generator that asks for another stream whatever the last one held
StreamContinuesAlways(st) == TRUE

\* `if not saw_tool_calls: return`, else the outer loop continues
StreamContinues(st) == st.sawTools

\* arespond_stream: the stream is exhausted
StreamEnd ==
    /\ pc = "schunk"
    /\ IF StreamContinues(stream)
       THEN /\ pc' = "loop"
            /\ iter' = iter + 1
            /\ UNCHANGED result
       ELSE /\ Return(<< >>)
            /\ UNCHANGED iter
    /\ dispatched' = NoDispatch
    /\ UNCHANGED << messages, mode, genCalls, pending, idx, events, stream,
                    cancelAt, afterCancel, nextId, users, toolCalls, faults,
                    cfgVars, fnVars >>

\* arespond_stream: TOOL_CALL_START is yielded, then _aexecute_tool_call is called
StreamToolStart ==
    /\ pc = "sstart"
    /\ idx <= Len(pending)
    /\ events' = Append(events, Event("TOOL_CALL_START", pending[idx].name, << >>))
    /\ pc' = "sexec"
    /\ dispatched' = NoDispatch
    /\ UNCHANGED << messages, mode, iter, genCalls, pending, idx, result, stream,
                    cancelAt, afterCancel, nextId, users, toolCalls, faults,
                    cfgVars, fnVars >>

\* arespond_stream: the tool returns, its message is appended, TOOL_CALL_END is yielded
StreamToolReturn ==
    /\ pc = "sexec"
    /\ \E env \in SessionEnvs :
         /\ FinishTool(_aexecute_tool_call(pending[idx].name, env), "sstart", "schunk")
         /\ faults' = IF IsFault(pending[idx].name, env) THEN faults + 1 ELSE faults
         /\ dispatched' = [name |-> pending[idx].name, env |-> env]
    /\ afterCancel' = CountAppend
    /\ events' = Append(events, Event("TOOL_CALL_END", pending[idx].name, << >>))
    /\ UNCHANGED << mode, genCalls, pending, result, stream,
                    cancelAt, nextId, users, toolCalls, cfgVars, fnVars >>

\* The enclosing task is cancelled while the orchestrator awaits the provider:
\* CancelledError is thrown at that await and nothing catches it.
SessionCancelAtProvider ==
    /\ pc \in {"gen", "retry", "fgen", "schunk"}
    /\ cancelAt = ""
    /\ faults < limits.faults
    /\ faults' = faults + 1
    /\ cancelAt' = pc
    /\ pc' = "aborted"
    /\ result' = Raised("CancelledError")
    /\ dispatched' = NoDispatch
    /\ UNCHANGED << messages, mode, iter, genCalls, pending, idx, events, stream,
                    afterCancel, nextId, users, toolCalls, cfgVars, fnVars >>

\* The enclosing task is cancelled while a tool is awaited: CancelledError is
\* thrown inside _aexecute_tool_call, which runs its `except asyncio.CancelledError`.
SessionCancelAtTool ==
    /\ pc \in {"exec", "sexec"}
    /\ Awaits(pending[idx].name)
    /\ cancelAt = ""
    /\ faults < limits.faults
    /\ faults' = faults + 1
    /\ cancelAt' = pc
    /\ LET env == [hook |-> "pass", how |-> "cancel"] IN
         /\ IF pc = "exec"
            THEN FinishTool(_aexecute_tool_call(pending[idx].name, env), "tools", "loop")
            ELSE FinishTool(_aexecute_tool_call(pending[idx].name, env), "sstart", "schunk")
         /\ dispatched' = [name |-> pending[idx].name, env |-> env]
    /\ afterCancel' = [afterCancel EXCEPT !.appends = @ + 1]
    /\ events' = IF pc = "sexec"
                 THEN Append(events, Event("TOOL_CALL_END", pending[idx].name, << >>))
                 ELSE events
    /\ UNCHANGED << mode, genCalls, pending, result, stream,
                    nextId, users, toolCalls, cfgVars, fnVars >>

Next ==
    \/ AppendUser
    \/ StartRespond
    \/ StartStream
    \/ RespondLoop
    \/ RespondGenerate
    \/ RespondRetry
    \/ ToolStart
    \/ ToolReturn
    \/ StreamLoop
    \/ StreamFallback
    \/ StreamChunk
    \/ StreamEnd
    \/ StreamToolStart
    \/ StreamToolReturn
    \/ SessionCancelAtProvider
    \/ SessionCancelAtTool

Spec == Init /\ [][Next]_vars

\* several turns with compaction between them
SessionInit ==
    InitSession(SessionIterations,
                [users |-> MaxUsers, calls |-> SessionToolCalls, faults |-> 1,
                 tools |-> SessionTools],
                { << SystemMsg(Opaque("system", ShortLen)) >> }, {TRUE})

NextSession ==
    \/ Next
    \/ AppendReply
    \/ Compress

SpecSession == SessionInit /\ [][NextSession]_vars

-----------------------------------------------------------------------------
(* The compaction functions applied to a family of conversations *)

\* tool-call pairs of the most recent turn
MaxPairs == 5
\* largest num_recent_pairs tried
MaxR == 4

\* shapes of the conversations handed to the functions
SystemShapes == {"none", "one", "two", "late"}
OlderTurns == {"none", "plain", "tools"}
\* which message carries the bulk of the text
Bulks == {"system", "older_user", "recent_user", "recent_tool", "recent_parts"}
\* estimated sizes aimed at; 0 leaves every text short
Targets == {0, HISTORY_TOKEN_THRESHOLD - 1, HISTORY_TOKEN_THRESHOLD,
            HISTORY_TOKEN_THRESHOLD + 1, 2 * HISTORY_TOKEN_THRESHOLD}

\* the tool calls of the i-th block: the second block carries two calls
BlockCalls(i) ==
    IF i = 2
    THEN << ToolCall(10 * i, "read_file", Lit("{}")),
            ToolCall(10 * i + 1, "chunker_chunk_documents", Lit("{}")) >>
    ELSE << ToolCall(10 * i, "chunker_chunk_documents", Lit("{}")) >>

\* what _ahandle_tool_calls leaves in the conversation for one response:
\* the synthetic assistant turn and one tool message per call
Block(i, first_len) ==
    LET calls == BlockCalls(i) IN
    << SyntheticAssistant(calls) >>
    \o [j \in 1..Len(calls) |->
          ToolMsg(calls[j], Opaque("out:" \o calls[j].name,
                                   IF j = 1 THEN first_len ELSE ResultLen))]

RECURSIVE Blocks(_, _, _)
\* blocks from..to; the first tool result of block 1 has first_len characters
Blocks(from, to, first_len) ==
    IF from > to THEN << >>
    ELSE Block(from, IF from = 1 THEN first_len ELSE ResultLen)
         \o Blocks(from + 1, to, first_len)

\* a conversation as a session leaves it; bulk is the length of the bulky text
Conversation(shape, older, pairs, reply, where, bulk) ==
    LET at == IF where = "system" /\ shape = "none" THEN "recent_user"
              ELSE IF where = "older_user" /\ older = "none" THEN "recent_user"
              ELSE IF where = "recent_tool" /\ pairs = 0 THEN "recent_user"
              ELSE where
        len(w) == IF at = w THEN bulk ELSE ShortLen
        \* the first system message may be the bulky one
        sys(k) == SystemMsg(Opaque("system", IF k = 0 THEN len("system") ELSE ShortLen + k))
        \* the user's input of the recent turn: a str, or a list of one text part
        recent_user == IF at = "recent_parts" THEN PartsMsg("user", Opaque("user", bulk))
                       ELSE UserMsg(Opaque("user", len("recent_user")))
        older_turn ==
            CASE older = "none" -> << >>
              [] older = "plain" ->
                   << UserMsg(Opaque("user", len("older_user"))),
                      AssistantMsg(Opaque("answer", ShortLen)) >>
              [] older = "tools" ->
                   << UserMsg(Opaque("user", len("older_user"))) >>
                   \o Block(9, ResultLen)
                   \o << AssistantMsg(Opaque("answer", ShortLen)) >>
        recent_tool_len == IF at = "recent_tool" THEN bulk ELSE ResultLen
        recent_turn ==
            << recent_user >>
            \o (IF shape = "late" THEN << sys(2) >> ELSE << >>)
            \o Blocks(1, pairs, recent_tool_len)
            \o (IF reply THEN << AssistantMsg(Opaque("answer", ShortLen)) >> ELSE << >>)
        leading_systems ==
            CASE shape = "none" -> << >>
              [] shape = "one" -> << sys(0) >>
              [] shape = "two" -> << sys(0), sys(1) >>
              [] shape = "late" -> << sys(0) >>
    IN leading_systems \o older_turn \o recent_turn

\* the conversation of that shape whose estimate is the target
Sized(shape, older, pairs, reply, where, target) ==
    IF target = 0 THEN Conversation(shape, older, pairs, reply, where, ShortLen)
    ELSE LET base == _estimate_token_count(
                         Conversation(shape, older, pairs, reply, where, 0))
         IN Conversation(shape, older, pairs, reply, where,
                         CHARS_PER_TOKEN * (target - base))

\* [U1, A1, U2, A2, ToolCall, ToolResult, A3]
TurnsExample ==
    << UserMsg(Lit("U1")), AssistantMsg(Lit("A1")),
       UserMsg(Lit("U2")), AssistantMsg(Lit("A2")) >>
    \o Block(1, ShortLen)
    \o << AssistantMsg(Lit("A3")) >>

\* a conversation as Branch B leaves it: the summary message, then the kept turn
Compacted ==
    << AssistantMsg(Lit(SUMMARY_HEAD) \o Opaque("summary", 40) \o Lit(SUMMARY_TAIL)),
       UserMsg(Lit("Q1")), AssistantMsg(Lit("A1")) >>

\* [Q1, A1, Q2, A2, Q3, A3]
ThreeTurns ==
    << UserMsg(Lit("Q1")), AssistantMsg(Lit("A1")),
       UserMsg(Lit("Q2")), AssistantMsg(Lit("A2")),
       UserMsg(Lit("Q3")), AssistantMsg(Lit("A3")) >>

FnInit ==
    /\ \/ \E shape \in SystemShapes, older \in OlderTurns, pairs \in 0..MaxPairs,
             reply \in BOOLEAN, where \in Bulks, target \in Targets :
            messages = Sized(shape, older, pairs, reply, where, target)
       \/ messages \in {TurnsExample, ThreeTurns, Compacted}
    /\ R = KEEP_RECENT_TOOL_PAIRS
    /\ pc = "fn"
    /\ mode = "none"
    /\ iter = 0
    /\ genCalls = 0
    /\ pending = << >>
    /\ idx = 0
    /\ result = NoResult
    /\ events = << >>
    /\ stream = NoStream
    /\ supportsTools = TRUE
    /\ cancelAt = ""
    /\ afterCancel = NoCancel
    /\ nextId = 1
    /\ users = 0
    /\ toolCalls = 0
    /\ faults = 0
    /\ max_iterations = MaxIterations
    /\ limits = [users |-> 0, calls |-> 0, faults |-> 0, tools |-> {}]
    /\ cin = << >>
    /\ cout = << >>
    /\ op = NoOp
    /\ dispatched = NoDispatch
    /\ ServicesIdle

sessionVars == << pc, mode, iter, genCalls, pending, idx, result, events, stream,
                 cancelAt, afterCancel, nextId, users, toolCalls, faults, dispatched >>

\* the turn compress_history_if_needed keeps: the last turn of the non-system messages
RecentTurn(history) ==
    _find_recent_complete_turns(SelectRole(history, FALSE), HISTORY_KEEP_RECENT_TURNS)

\* _compress_tool_calls_in_turn(msgs_to_keep, num_recent_pairs)
ApplyCompressTurn ==
    /\ pc = "fn"
    /\ op = NoOp
    /\ \E num_recent_pairs \in 0..MaxR :
         /\ R' = num_recent_pairs
         /\ cout' = _compress_tool_calls_in_turn(RecentTurn(messages), num_recent_pairs)
    /\ cin' = RecentTurn(messages)
    /\ op' = [name |-> "compress_turn", gens |-> 0, ok |-> TRUE]
    /\ UNCHANGED << messages, sessionVars, supportsTools, max_iterations, limits,
                    mcpVars, build >>

\* what provider.generate may answer the summarization request with
FnSums == Sums \cup { [ok |-> TRUE, content |-> << >>] }

\* await compress_history_if_needed(history, provider)
ApplyCompressHistory ==
    /\ pc = "fn"
    /\ op = NoOp
    /\ \E sum \in FnSums :
         LET r == compress_history_if_needed(messages, sum) IN
           /\ cin' = messages
           /\ cout' = r.out
           /\ op' = [name |-> "compress", gens |-> r.gens, ok |-> sum.ok]
    /\ UNCHANGED << messages, sessionVars, cfgVars >>

\* largest num_turns tried
MaxTurns == 3

\* _find_recent_complete_turns(conversation_msgs, num_turns)
ApplyFindTurns ==
    /\ pc = "fn"
    /\ op = NoOp
    /\ \E num_turns \in 0..MaxTurns :
         /\ cout' = _find_recent_complete_turns(SelectRole(messages, FALSE), num_turns)
         /\ op' = [name |-> "find_turns", gens |-> 0, ok |-> TRUE, num_turns |-> num_turns]
    /\ cin' = SelectRole(messages, FALSE)
    /\ UNCHANGED << messages, sessionVars, cfgVars >>

\* lengths of the user input that follows the conversation
LastInputs == {ShortLen, EMERGENCY_MSG_MAX_CHARS, EMERGENCY_MSG_MAX_CHARS + 1}

\* _emergency_truncate_messages(messages), the caller's next input appended
ApplyTruncate ==
    /\ pc = "fn"
    /\ op = NoOp
    /\ \E n \in LastInputs :
         LET input == Append(messages, UserMsg(Opaque("input", n))) IN
           /\ cin' = input
           /\ cout' = _emergency_truncate_messages(input)
    /\ op' = [name |-> "truncate", gens |-> 0, ok |-> TRUE]
    /\ UNCHANGED << messages, sessionVars, cfgVars >>

\* _estimate_token_count of nothing, of the conversation, and of the
\* conversation followed by an assistant message without content
ApplyEstimate ==
    /\ pc = "fn"
    /\ op = NoOp
    /\ \E input \in { << >>, messages, Append(messages, AssistantMsg(<< >>)) } :
         /\ cin' = input
         /\ cout' = _estimate_token_count(input)
    /\ op' = [name |-> "estimate", gens |-> 0, ok |-> TRUE]
    /\ UNCHANGED << messages, sessionVars, cfgVars >>

NextFn ==
    \/ ApplyCompressTurn
    \/ ApplyCompressHistory
    \/ ApplyFindTurns
    \/ ApplyTruncate
    \/ ApplyEstimate

SpecFn == FnInit /\ [][NextFn]_vars

-----------------------------------------------------------------------------
(* MCPClient: persistent and temporary connections *)

\* the agent is not running: only the MCP client or the pipeline build moves
AgentIdle(at) ==
    /\ messages = << >>
    /\ pc = at
    /\ mode = "none"
    /\ iter = 0
    /\ genCalls = 0
    /\ pending = << >>
    /\ idx = 0
    /\ result = NoResult
    /\ events = << >>
    /\ stream = NoStream
    /\ supportsTools = TRUE
    /\ cancelAt = ""
    /\ afterCancel = NoCancel
    /\ nextId = 1
    /\ users = 0
    /\ toolCalls = 0
    /\ faults = 0
    /\ max_iterations = MaxIterations
    /\ limits = [users |-> 0, calls |-> 0, faults |-> 0, tools |-> {}]
    /\ cin = << >>
    /\ cout = << >>
    /\ op = NoOp
    /\ dispatched = NoDispatch
    /\ R = KEEP_RECENT_TOOL_PAIRS

agentVars == << messages, sessionVars, supportsTools, max_iterations, limits, R, fnVars >>

\* a dead-transport set that leaves EOFError to the caller
TransportErrorsWithoutEOF == {"ConnectionError"}

\* MCPClient._TRANSPORT_ERRORS
_TRANSPORT_ERRORS == {"ConnectionError", "EOFError"}

\* what a request to the server may raise instead of returning
Errors == {"ConnectionError", "EOFError", "ValueError", "CancelledError"}
Calls == {"alist_tools", "acall_tool"}

\* a cleanup that leaves the subprocess alone
LeaveRunning(transport) == transport

\* _terminate_transport: terminate(), and kill() if the process is still there
_terminate_transport(transport) == [transport EXCEPT !.running = FALSE]

\* Client.__aenter__: the subprocess is started and the session opened
Enter(transport) == [transport EXCEPT !.entered = TRUE, !.running = TRUE]
\* Client.__aexit__: the session is closed
Exit(transport) == [transport EXCEPT !.entered = FALSE]

Finish(frame, outcome) == [frame EXCEPT !.pc = "done", !.outcome = outcome]

\* connect(): returns at once when connected, otherwise constructs the
\* transport and the client and suspends in client.__aenter__()
Connect(t) ==
    /\ pc = "mcp"
    /\ tasks[t].pc = "done"
    /\ invoked' = invoked \cup {"connect"}
    /\ IF _client # NoConn
       THEN /\ tasks' = [tasks EXCEPT ![t] = Finish([NoTask EXCEPT !.op = "connect"], "result")]
            /\ UNCHANGED conns
       ELSE /\ Len(conns) < MaxConns
            /\ conns' = Append(conns, Conn("persistent"))
            /\ tasks' = [tasks EXCEPT ![t] = [NoTask EXCEPT !.op = "connect",
                                                            !.pc = "connect_enter",
                                                            !.conn = Len(conns) + 1,
                                                            !.via = "persistent"]]
    /\ UNCHANGED << _client, _transport, build, agentVars >>

\* client.__aenter__() has returned: connect() stores the pair
ConnectEntered(t) ==
    /\ pc = "mcp"
    /\ tasks[t].pc = "connect_enter"
    /\ conns' = [conns EXCEPT ![tasks[t].conn] = Enter(@)]
    /\ _transport' = tasks[t].conn
    /\ _client' = tasks[t].conn
    /\ tasks' = [tasks EXCEPT ![t] = Finish(@, "result")]
    /\ UNCHANGED << invoked, build, agentVars >>

\* disconnect(): takes the pair out of the fields, then suspends in
\* client.__aexit__() when there is a client
Disconnect(t) ==
    /\ pc = "mcp"
    /\ tasks[t].pc = "done"
    /\ invoked' = invoked \cup {"disconnect"}
    /\ _client' = NoConn
    /\ _transport' = NoConn
    /\ IF _client # NoConn
       THEN /\ tasks' = [tasks EXCEPT ![t] = [NoTask EXCEPT !.op = "disconnect",
                                                            !.pc = "disconnect_exit",
                                                            !.conn = _client,
                                                            !.dropped = _client]]
            /\ UNCHANGED conns
       ELSE IF _transport # NoConn
       THEN /\ conns' = [conns EXCEPT ![_transport] = _terminate_transport(@)]
            /\ tasks' = [tasks EXCEPT ![t] = [NoTask EXCEPT !.op = "disconnect",
                                                            !.pc = "disconnect_sleep",
                                                            !.conn = _transport,
                                                            !.dropped = _transport]]
       ELSE /\ tasks' = [tasks EXCEPT ![t] = Finish([NoTask EXCEPT !.op = "disconnect"],
                                                    "result")]
            /\ UNCHANGED conns
    /\ UNCHANGED << build, agentVars >>

\* client.__aexit__() has returned, or raised an Exception that is logged:
\* the transport is terminated and the coroutine sleeps 0.1 s
DisconnectExited(t) ==
    /\ pc = "mcp"
    /\ tasks[t].pc = "disconnect_exit"
    /\ conns' = [conns EXCEPT ![tasks[t].conn] = _terminate_transport(Exit(@))]
    /\ tasks' = [tasks EXCEPT ![t].pc = "disconnect_sleep"]
    /\ UNCHANGED << _client, _transport, invoked, build, agentVars >>

DisconnectSlept(t) ==
    /\ pc = "mcp"
    /\ tasks[t].pc = "disconnect_sleep"
    /\ tasks' = [tasks EXCEPT ![t] = Finish(@, "result")]
    /\ UNCHANGED << _client, _transport, conns, invoked, build, agentVars >>

\* the fallback of alist_tools / acall_tool: a transport and a client of its
\* own, suspended in `async with client`
OpenTemporary(t, frame) ==
    /\ Len(conns) < MaxConns
    /\ conns' = Append(conns, Conn("temporary"))
    /\ tasks' = [tasks EXCEPT ![t] = [frame EXCEPT !.pc = "temporary_enter",
                                                   !.conn = Len(conns) + 1,
                                                   !.via = "temporary",
                                                   !.attempts = @ + 1]]

\* alist_tools() / acall_tool(): the fast path when _client is set
Call(t, which) ==
    /\ pc = "mcp"
    /\ tasks[t].pc = "done"
    /\ invoked' = invoked \cup {which}
    /\ IF _client # NoConn
       THEN /\ tasks' = [tasks EXCEPT ![t] = [NoTask EXCEPT !.op = which,
                                                            !.pc = "persistent_call",
                                                            !.conn = _client,
                                                            !.via = "persistent"]]
            /\ UNCHANGED conns
       ELSE OpenTemporary(t, [NoTask EXCEPT !.op = which])
    /\ UNCHANGED << _client, _transport, build, agentVars >>

\* the request on the persistent client returns or raises; a transport error
\* runs disconnect() up to its first suspension
PersistentReturns(t) ==
    /\ pc = "mcp"
    /\ tasks[t].pc = "persistent_call"
    /\ \/ /\ conns[tasks[t].conn].running
          /\ tasks' = [tasks EXCEPT ![t] = Finish(@, "result")]
          /\ UNCHANGED << _client, _transport, conns >>
       \/ \E e \in Errors \ _TRANSPORT_ERRORS :
             /\ tasks' = [tasks EXCEPT ![t] = Finish([@ EXCEPT !.raised = e], e)]
             /\ UNCHANGED << _client, _transport, conns >>
       \/ \E e \in Errors \cap _TRANSPORT_ERRORS :
             LET frame == [tasks[t] EXCEPT !.raised = e, !.dropped = _client] IN
             /\ _client' = NoConn
             /\ _transport' = NoConn
             /\ IF _client # NoConn
                THEN /\ tasks' = [tasks EXCEPT ![t] = [frame EXCEPT !.pc = "recover_exit"]]
                     /\ UNCHANGED conns
                ELSE OpenTemporary(t, frame)
    /\ UNCHANGED << invoked, build, agentVars >>

\* disconnect() inside the recovery: __aexit__ is over, the transport is
\* terminated; a CancelledError delivered in __aexit__ is not an Exception and
\* leaves the call before the transport is terminated
RecoverExited(t) ==
    /\ pc = "mcp"
    /\ tasks[t].pc = "recover_exit"
    /\ \/ /\ conns' = [conns EXCEPT ![tasks[t].dropped] = _terminate_transport(Exit(@))]
          /\ tasks' = [tasks EXCEPT ![t].pc = "recover_sleep"]
       \/ /\ tasks' = [tasks EXCEPT ![t] = Finish(@, "CancelledError")]
          /\ UNCHANGED conns
    /\ UNCHANGED << _client, _transport, invoked, build, agentVars >>

\* disconnect() has returned: the call goes on to the fallback
RecoverSlept(t) ==
    /\ pc = "mcp"
    /\ tasks[t].pc = "recover_sleep"
    /\ OpenTemporary(t, tasks[t])
    /\ UNCHANGED << _client, _transport, invoked, build, agentVars >>

\* `async with client` has entered, or failed to: the finally terminates the
\* transport
TemporaryEntered(t) ==
    /\ pc = "mcp"
    /\ tasks[t].pc = "temporary_enter"
    /\ \/ /\ conns' = [conns EXCEPT ![tasks[t].conn] = Enter(@)]
          /\ tasks' = [tasks EXCEPT ![t].pc = "temporary_call"]
       \/ \E e \in Errors :
             /\ conns' = [conns EXCEPT ![tasks[t].conn] = _terminate_transport(@)]
             /\ tasks' = [tasks EXCEPT ![t] = [@ EXCEPT !.pc = "temporary_sleep",
                                                        !.outcome = e]]
    /\ UNCHANGED << _client, _transport, invoked, build, agentVars >>

\* the request on the temporary client returns or raises: `async with` exits
\* and the finally terminates the transport
TemporaryReturns(t) ==
    /\ pc = "mcp"
    /\ tasks[t].pc = "temporary_call"
    /\ \E outcome \in {"result"} \cup Errors :
         tasks' = [tasks EXCEPT ![t] = [@ EXCEPT !.pc = "temporary_sleep",
                                                 !.outcome = outcome]]
    /\ conns' = [conns EXCEPT ![tasks[t].conn] = _terminate_transport(Exit(@))]
    /\ UNCHANGED << _client, _transport, invoked, build, agentVars >>

\* the sleep of _terminate_transport is over (a cancellation of it is absorbed)
TemporarySlept(t) ==
    /\ pc = "mcp"
    /\ tasks[t].pc = "temporary_sleep"
    /\ tasks' = [tasks EXCEPT ![t].pc = "done"]
    /\ UNCHANGED << _client, _transport, conns, invoked, build, agentVars >>

McpInit == AgentIdle("mcp") /\ ServicesIdle

NextMcp ==
    \E t \in 1..MaxTasks :
        \/ Connect(t)
        \/ ConnectEntered(t)
        \/ Disconnect(t)
        \/ DisconnectExited(t)
        \/ DisconnectSlept(t)
        \/ \E which \in Calls : Call(t, which)
        \/ PersistentReturns(t)
        \/ RecoverExited(t)
        \/ RecoverSlept(t)
        \/ TemporaryEntered(t)
        \/ TemporaryReturns(t)
        \/ TemporarySlept(t)

SpecMcp == McpInit /\ [][NextMcp]_vars

-----------------------------------------------------------------------------
(* RagPipelineOrchestrator.build *)

\* _HEALTH_PATHS: the services whose health is awaited
_HEALTH_PATHS == {"qdrant", "rag-service"}
DbTypes == {"qdrant", "chroma", "milvus"}

\* _save_project_to_db / _update_project_status: the row's status is written
WriteStatus(frame, status) ==
    [frame EXCEPT !.status = status, !.written = Append(@, status)]

\* the except block of build: the status becomes "failed" and the exception
\* goes on to the caller
\* an except block that re-raises without the status
BuildFailsSilently(frame, step, how) ==
    [frame EXCEPT !.pc = "done", !.outcome = "raised", !.failed_step = step, !.how = how]

BuildFails(frame, step, how) ==
    [WriteStatus(frame, "failed") EXCEPT !.pc = "done", !.outcome = "raised",
                                        !.failed_step = step, !.how = how]

\* a CancelledError is not an Exception: it passes the except block
BuildCancelled(frame, step) ==
    [frame EXCEPT !.pc = "done", !.outcome = "cancelled",
                  !.failed_step = step, !.how = "cancelled"]

Ran(frame, step) == [frame EXCEPT !.steps = Append(@, step)]

\* the outcomes of a step whose result dictionary is tested for status "error":
\* it succeeds, or it raises, or it reports the error and build raises RuntimeError
CheckedStep(frame, step, next) ==
    { [Ran(frame, step) EXCEPT !.pc = next] }
    \cup { BuildFails(Ran(frame, step), step, how) : how \in {"raised", "reported"} }

\* the outcomes of _wait_for_service: healthy, or a timeout that is appended to
\* result.errors, or a cancellation while polling
WaitStep(frame, step, service, then) ==
    { then, [then EXCEPT !.errors = Append(@, service)], BuildCancelled(frame, step) }

\* steps 1 and 2: the given config is validated or one is built, either of
\* which may raise, and the project is saved with status "building"
BuildStart ==
    /\ pc = "build"
    /\ build.pc = "idle"
    /\ \E rag_config \in BOOLEAN :
         \/ build' = [WriteStatus(build, "building") EXCEPT !.pc = "process_documents",
                                                           !.rag_config = rag_config]
         \/ build' = [build EXCEPT !.pc = "done", !.outcome = "raised",
                                   !.rag_config = rag_config]
    /\ UNCHANGED << mcpVars, agentVars >>

\* step 3: await DocumentProcessor.process_documents
ProcessDocuments ==
    /\ pc = "build"
    /\ build.pc = "process_documents"
    /\ build' \in CheckedStep(build, "process_documents", "chunk_documents")
                  \cup { BuildCancelled(Ran(build, "process_documents"),
                                        "process_documents") }
    /\ UNCHANGED << mcpVars, agentVars >>

\* step 4: ChunkingService.chunk_documents
ChunkDocuments ==
    /\ pc = "build"
    /\ build.pc = "chunk_documents"
    /\ build' \in CheckedStep(build, "chunk_documents", "init_project")
    /\ UNCHANGED << mcpVars, agentVars >>

\* step 5: ComposeManager.init_project
InitProject ==
    /\ pc = "build"
    /\ build.pc = "init_project"
    /\ build' \in CheckedStep(build, "init_project", "start_vectorstore")
    /\ UNCHANGED << mcpVars, agentVars >>

\* step 6: ComposeManager.start_service(db_type); its health is awaited when
\* _HEALTH_PATHS names the database
StartVectorstore ==
    /\ pc = "build"
    /\ build.pc = "start_vectorstore"
    /\ build' \in CheckedStep(build, "start_vectorstore",
                             IF build.db_type \in _HEALTH_PATHS
                             THEN "wait_vectorstore" ELSE "load")
    /\ UNCHANGED << mcpVars, agentVars >>

WaitVectorstore ==
    /\ pc = "build"
    /\ build.pc = "wait_vectorstore"
    /\ build' \in WaitStep(build, "wait_vectorstore", build.db_type,
                          [build EXCEPT !.pc = "load"])
    /\ UNCHANGED << mcpVars, agentVars >>

\* step 7: await VectorstoreService.load: it loads and returns a summary, or
\* raises (the URL start_service hands over is a localhost one, so load does not
\* return its URL error)
Load ==
    /\ pc = "build"
    /\ build.pc = "load"
    /\ \/ build' = [Ran(build, "load") EXCEPT !.pc = "start_rag_service"]
       \/ build' = BuildFails(Ran(build, "load"), "load", "raised")
       \/ build' = BuildCancelled(Ran(build, "load"), "load")
    /\ UNCHANGED << mcpVars, agentVars >>

\* step 8: ComposeManager.start_service("rag-service")
StartRagService ==
    /\ pc = "build"
    /\ build.pc = "start_rag_service"
    /\ build' \in CheckedStep(build, "start_rag_service", "wait_rag_service")
    /\ UNCHANGED << mcpVars, agentVars >>

\* the health of the RAG service, then _update_project_status("ready"), which
\* may raise before it writes, and the result is returned
WaitRagService ==
    /\ pc = "build"
    /\ build.pc = "wait_rag_service"
    /\ build' \in WaitStep(build, "wait_rag_service", "rag-service",
                          [WriteStatus(build, "ready") EXCEPT !.pc = "done",
                                                             !.outcome = "result"])
                  \cup { BuildFails(build, "update_status", "raised") }
    /\ UNCHANGED << mcpVars, agentVars >>

\* the project may exist already, with the status an earlier build left
BuildInit ==
    /\ AgentIdle("build")
    /\ _client = NoConn
    /\ _transport = NoConn
    /\ conns = << >>
    /\ tasks = [t \in 1..MaxTasks |-> NoTask]
    /\ invoked = {}
    /\ \E db_type \in DbTypes, status \in {"absent", "ready", "failed", "building"} :
         build = [NoBuild EXCEPT !.db_type = db_type, !.status = status]

NextBuild ==
    \/ BuildStart
    \/ ProcessDocuments
    \/ ChunkDocuments
    \/ InitProject
    \/ StartVectorstore
    \/ WaitVectorstore
    \/ Load
    \/ StartRagService
    \/ WaitRagService

SpecBuild == BuildInit /\ [][NextBuild]_vars

-----------------------------------------------------------------------------
(* _ahandle_tool_calls on one call: arguments, resolution, execution *)

\* names a provider may ask for: every registered tool, every name with a
\* policy hook, and one nobody registered
ToolNames == LocalTools \cup McpTools \cup HookTools \cup {"no_such_tool"}

ToolInit ==
    /\ AgentIdle("tool")
    /\ ServicesIdle

\* _ahandle_tool_calls: the synthetic assistant turn of a response with one call
HandleToolCalls ==
    /\ pc = "tool"
    /\ \E name \in ToolNames, raw \in RawArgs :
         /\ pending' = << ToolCall(nextId, name, raw) >>
         /\ messages' = << UserMsg(Opaque("user", ShortLen)),
                           SyntheticAssistant(<< ToolCall(nextId, name, raw) >>) >>
    /\ idx' = 1
    /\ nextId' = nextId + 1
    /\ pc' = "parse"
    /\ UNCHANGED << mode, iter, genCalls, result, events, stream, cancelAt, afterCancel,
                    users, toolCalls, faults, dispatched, cfgVars, fnVars >>

\* args = self._parse_tool_args(tc)
ParseToolArgs ==
    /\ pc = "parse"
    /\ op' = [name |-> "parse", raw |-> pending[idx].arguments,
              args |-> _parse_tool_args(pending[idx].arguments)]
    /\ pc' = "execute"
    /\ UNCHANGED << messages, mode, iter, genCalls, pending, idx, result, events, stream,
                    cancelAt, afterCancel, nextId, users, toolCalls, faults, dispatched,
                    cfgVars, cin, cout >>

\* result_str = await self._aexecute_tool_call(tc, args), then the tool message
ExecuteToolCall ==
    /\ pc = "execute"
    /\ \E env \in Envs(pending[idx].name) :
         /\ cout' = _aexecute_tool_call(pending[idx].name, env)
         /\ messages' = Append(messages,
                               ToolMsg(pending[idx],
                                       _aexecute_tool_call(pending[idx].name, env)))
         /\ dispatched' = [name |-> pending[idx].name, env |-> env]
    /\ op' = [op EXCEPT !.name = "execute"]
    /\ idx' = idx + 1
    /\ pc' = "handled"
    /\ UNCHANGED << mode, iter, genCalls, pending, result, events, stream,
                    cancelAt, afterCancel, nextId, users, toolCalls, faults,
                    cfgVars, cin >>

NextTool ==
    \/ HandleToolCalls
    \/ ParseToolArgs
    \/ ExecuteToolCall

SpecTool == ToolInit /\ [][NextTool]_vars

-----------------------------------------------------------------------------
(* Properties *)

\* C1: once max_iterations responses of the model have each carried tool calls,
\* arespond has issued exactly max_iterations generate requests, issues no
\* further one and returns the empty string without raising.
C1_LoopTermination ==
    (mode = "respond" /\ iter = max_iterations) =>
        /\ genCalls = max_iterations
        /\ pc \in {"loop", "idle"}
        /\ (pc = "idle" => result = Returned(<< >>))

C1_Witness ==
    /\ mode = "respond" /\ supportsTools
    /\ iter = max_iterations /\ genCalls = max_iterations
    /\ pc = "idle" /\ result = Returned(<< >>)

\* the conversation ends with the synthetic assistant turn of `pending` and the
\* tool messages of its first k calls, in the order of the calls
BlockAtTail(k) ==
    /\ Len(messages) > k
    /\ messages[Len(messages) - k] = SyntheticAssistant(pending)
    /\ \A j \in 1..k :
         /\ messages[Len(messages) - k + j].role = "tool"
         /\ messages[Len(messages) - k + j].tool_call_id = pending[j].id
    /\ Cardinality({ i \in 1..Len(messages) : messages[i].tool_calls = pending }) = 1

\* C2: for a response of the model carrying calls c1..cn, arespond appends one
\* assistant message carrying those calls and then the tool messages, the i-th
\* with tool_call_id = ci.id; call i is dispatched only when the results of calls
\* 1..i-1 are in the conversation, and the handling ends with exactly n of them.
C2_SequentialDispatch ==
    (mode = "respond" /\ pending # << >>) =>
        /\ BlockAtTail(idx - 1)
        /\ (pc \in {"tools", "exec"} => idx <= Len(pending))
        /\ (pc \notin {"tools", "exec"} => idx = Len(pending) + 1)

C2_Witness ==
    /\ mode = "respond" /\ pc = "loop"
    /\ Len(pending) > 1 /\ idx = Len(pending) + 1
    /\ BlockAtTail(Len(pending))

\* every tool message answers a call of an assistant message before it
Linked(msgs) ==
    \A i \in 1..Len(msgs) :
        msgs[i].role = "tool" =>
            \E j \in 1..(i - 1) :
                /\ msgs[j].role = "assistant"
                /\ \E k \in 1..Len(msgs[j].tool_calls) :
                     msgs[j].tool_calls[k].id = msgs[i].tool_call_id

IsDigest(m) ==
    m.role = "assistant" /\ m.tool_calls = NoCalls /\ HasPiece(m.content, DIGEST_HEAD)

WasCancelled(d) ==
    d.env.hook = "cancel" \/ (d.env.hook = "pass" /\ d.env.how \in {"kbdint", "cancel"})

\* the handler or the hook before it raised Exception(ERR)
WasError(d) == d.env.hook = "raise" \/ (d.env.hook = "pass" /\ d.env.how = "raise")

\* after the dispatch of pending[idx - 1] the orchestrator goes on: to the next
\* call of the response, or to the next iteration
GoesOn ==
    /\ result = NoResult
    /\ IF idx <= Len(pending) THEN pc \in {"tools", "sstart"} ELSE pc \in {"loop", "schunk"}

\* C4: when KeyboardInterrupt or CancelledError is raised while a tool call
\* executes, a tool message for that call saying the execution was cancelled by
\* the user is appended and the orchestrator goes on with the next call or iteration.
C4_ToolCancellationAbsorbed ==
    (dispatched # NoDispatch /\ WasCancelled(dispatched)) =>
        /\ Last(messages) = Message("tool", Lit(CANCELLED_TEXT), NoCalls,
                                    pending[idx - 1].id, pending[idx - 1].name)
        /\ GoesOn

C4_Witness ==
    /\ dispatched # NoDispatch /\ dispatched.env.how = "kbdint"
    /\ idx <= Len(pending) /\ pc = "tools"
    /\ Last(messages).content = Lit(CANCELLED_TEXT)

\* C5: after a cancellation of the enclosing task is delivered, at a provider
\* call or at a tool dispatch, the invocation has ended by raising it: no
\* generate request is issued and no message is appended afterwards.
C5_SessionCancellationPropagates ==
    cancelAt # "" =>
        /\ pc = "aborted"
        /\ result = Raised("CancelledError")
        /\ afterCancel = NoCancel

RespondRequests(content) == IF NeedsRetry(content) THEN 2 ELSE 1

\* C7: when generate_stream gives None or something that cannot be iterated and
\* the fallback response carries no tool calls, arespond_stream issues the
\* generate requests arespond issues for that response and yields the content
\* arespond returns as one Content event.
C7_FallbackAsRespond ==
    (mode = "stream" /\ stream.fallback = "done") =>
        /\ pc = "idle" /\ result.kind = "returned"
        /\ stream.fbGens = RespondRequests(stream.fbContent)
        /\ (stream.fbContent # << >> =>
              events = << Event("CONTENT", "", stream.fbContent) >>)

\* C8: a conversation whose estimate is at most the threshold, the threshold
\* itself included, comes back from compress_history_if_needed as the identical
\* sequence, and no generate request is issued.
C8_NoOpUnderThreshold ==
    (op.name = "compress" /\ _estimate_token_count(cin) <= HISTORY_TOKEN_THRESHOLD) =>
        (cout = cin /\ op.gens = 0)

C8_Witness ==
    /\ op.name = "compress"
    /\ _estimate_token_count(cin) = HISTORY_TOKEN_THRESHOLD
    /\ Len(PairsOf(RecentTurn(cin))) > KEEP_RECENT_TOOL_PAIRS
    /\ cout = cin

SystemPositions(msgs) == { i \in 1..Len(msgs) : msgs[i].role = "system" }

\* the position in msgs of its k-th system message
NthSystem(msgs, k) ==
    CHOOSE i \in SystemPositions(msgs) :
        Cardinality({ j \in SystemPositions(msgs) : j <= i }) = k

\* out begins with exactly the system messages of inp, in order and unmodified,
\* and holds no other system message
SystemsFirst(inp, out) ==
    LET n == Cardinality(SystemPositions(inp)) IN
    /\ SystemPositions(out) = 1..n
    /\ \A k \in 1..n : out[k] = inp[NthSystem(inp, k)]

\* C9 as stated: for every input conversation the output of
\* compress_history_if_needed begins with exactly the input's system messages,
\* in order and unmodified, and no system message follows a non-system message.
C9_SystemsFirstAlways == op.name = "compress" => SystemsFirst(cin, cout)

\* C9, for the inputs that are compacted: when the estimate of the input exceeds
\* the threshold, the output begins with exactly the input's system messages, in
\* order and unmodified, and no system message follows a non-system message.
C9_SystemsFirstWhenCompacted ==
    (op.name = "compress" /\ _estimate_token_count(cin) > HISTORY_TOKEN_THRESHOLD) =>
        SystemsFirst(cin, cout)

C9_Witness ==
    /\ op.name = "compress"
    /\ _estimate_token_count(cin) > HISTORY_TOKEN_THRESHOLD
    /\ Cardinality(SystemPositions(cin)) = 2
    /\ SystemPositions(cin) # 1..2
    /\ SystemsFirst(cin, cout)

\* C10: for every R >= 0 and a kept turn of P pairs, _compress_tool_calls_in_turn
\* keeps exactly the min(R, P) most recent pairs verbatim; when P > R the older
\* pairs become one digest message after the leading messages and before the
\* kept pairs, and when P <= R the turn comes back unchanged.
C10_KeepsMinRecentPairs ==
    op.name = "compress_turn" =>
        LET pairs == PairsOf(cin)
            P == Len(pairs)
            L == LeadingLen(cin)
        IN IF P > R
           THEN /\ Len(cout) > L
                /\ SeqTake(cout, L) = SeqTake(cin, L)
                /\ IsDigest(cout[L + 1])
                /\ SeqDrop(cout, L + 1) = Flatten(SeqDrop(pairs, P - Min(R, P)))
           ELSE cout = cin

UserCount(msgs) == Cardinality({ i \in 1..Len(msgs) : msgs[i].role = "user" })

IsSuffix(out, inp) ==
    Len(out) <= Len(inp) /\ out = SubSeq(inp, Len(inp) - Len(out) + 1, Len(inp))

\* C11: for K >= 1 and a sequence with at least K user messages,
\* _find_recent_complete_turns returns the suffix that begins at the K-th-from-last
\* user message: it holds exactly K user messages and ends with the last input
\* message; for [U1,A1,U2,A2,ToolCall,ToolResult,A3] K=1 gives the 5 messages
\* from U2 and K=2 gives all 7.
C11_TurnSegmentation ==
    (op.name = "find_turns" /\ op.num_turns >= 1 /\ UserCount(cin) >= op.num_turns) =>
        /\ IsSuffix(cout, cin)
        /\ cout[1].role = "user"
        /\ UserCount(cout) = op.num_turns
        /\ Last(cout) = Last(cin)
        /\ (cin = TurnsExample =>
              /\ Len(cin) = 7
              /\ (op.num_turns = 1 => cout = SubSeq(cin, 3, 7))
              /\ (op.num_turns = 2 => cout = cin))

C11_Witness ==
    /\ op.name = "find_turns" /\ op.num_turns = 1
    /\ cin = TurnsExample
    /\ Len(cout) = 5 /\ cout[1] = UserMsg(Lit("U2"))

\* a non-system message precedes a user message: something is older than the
\* last turn
HasOlder(history) ==
    \E i, j \in 1..Len(history) :
        i < j /\ history[i].role # "system" /\ history[j].role = "user"

\* C12: one invocation of compress_history_if_needed issues at most one generate
\* call: exactly one when the conversation is over the threshold and non-system
\* messages older than the kept turn exist, none otherwise.
C12_AtMostOneGenerate ==
    op.name = "compress" =>
        op.gens = IF _estimate_token_count(cin) > HISTORY_TOKEN_THRESHOLD /\ HasOlder(cin)
                  THEN 1 ELSE 0

C12_Witness ==
    /\ op.name = "compress" /\ op.gens = 1 /\ op.ok
    /\ _estimate_token_count(cin) > HISTORY_TOKEN_THRESHOLD

\* the system messages of a conversation, in order
SystemsOf(history) ==
    [k \in 1..Cardinality(SystemPositions(history)) |-> history[NthSystem(history, k)]]

\* the kept turn after intra-turn compression
KeptTurn(history) ==
    _compress_tool_calls_in_turn(RecentTurn(history), KEEP_RECENT_TOOL_PAIRS)

\* the summarization request was made and raised
SummarizerFailed == op.name = "compress" /\ op.gens = 1 /\ ~op.ok

NoticeMessage == Message("assistant", Lit(FALLBACK_TRUNCATION_NOTICE), NoCalls, NoId, "")

\* C13 as stated: when the summarization call raises, the output is the system
\* messages, one assistant message holding exactly FALLBACK_TRUNCATION_NOTICE,
\* then the intra-turn-compressed kept turn with its last messages preserved.
C13_NoticeThenKeptTurn ==
    SummarizerFailed =>
        cout = SystemsOf(cin) \o << NoticeMessage >> \o KeptTurn(cin)

\* C13, with the truncation the fallback applies: when the summarization call
\* raises, the output is the system messages, one assistant message holding exactly
\* FALLBACK_TRUNCATION_NOTICE, then the intra-turn-compressed kept turn, message
\* for message; its messages are verbatim when that output fits the threshold and
\* emergency-truncated when it does not.
C13_NoticeThenKeptTurnOrTruncated ==
    SummarizerFailed =>
        LET plain == SystemsOf(cin) \o << NoticeMessage >> \o KeptTurn(cin) IN
        IF _estimate_token_count(plain) <= HISTORY_TOKEN_THRESHOLD
        THEN cout = plain
        ELSE cout = SystemsOf(cin) \o << NoticeMessage >>
                    \o _emergency_truncate_messages(KeptTurn(cin))

C13_Witness ==
    /\ SummarizerFailed
    /\ cout # SystemsOf(cin) \o << NoticeMessage >> \o KeptTurn(cin)
    /\ Len(cout) = Len(SystemsOf(cin)) + 1 + Len(KeptTurn(cin))
    /\ cout[Len(SystemsOf(cin)) + 1] = NoticeMessage
    /\ Last(cout).role = Last(cin).role

\* C14: whenever compress_history_if_needed is invoked on a conversation over the
\* threshold, the estimate of what it returns is strictly smaller than the
\* estimate of the input, when nothing older than the kept turn exists and when
\* the summarizer fails.
C14_StrictlySmaller ==
    (/\ op.name = "compress"
     /\ _estimate_token_count(cin) > HISTORY_TOKEN_THRESHOLD
     /\ (op.gens = 0 \/ ~op.ok)) =>
        _estimate_token_count(cout) < _estimate_token_count(cin)

\* C15: _emergency_truncate_messages turns a text longer than
\* C = EMERGENCY_MSG_MAX_CHARS into one of at most C characters that begins with
\* the first int(0.6 * C) characters of the input and ends with a trailing segment
\* of it, role, name, tool_calls and tool_call_id unchanged; a message whose text
\* has at most C characters, or whose content is not text, is returned unchanged.
C15_TruncationBound ==
    op.name = "truncate" =>
        /\ Len(cout) = Len(cin)
        /\ \A i \in 1..Len(cin) :
             IF ~cin[i].parts /\ TextLen(cin[i].content) > EMERGENCY_MSG_MAX_CHARS
             THEN LET head == (EMERGENCY_MSG_MAX_CHARS * 6) \div 10
                      tail == EMERGENCY_MSG_MAX_CHARS - head - 100
                  IN /\ TextLen(cout[i].content) <= EMERGENCY_MSG_MAX_CHARS
                     /\ TakeText(cout[i].content, head) = TakeText(cin[i].content, head)
                     /\ PySuffix(cout[i].content, tail) = PySuffix(cin[i].content, tail)
                     /\ [cout[i] EXCEPT !.content = cin[i].content] = cin[i]
             ELSE cout[i] = cin[i]

C15_Witness ==
    /\ op.name = "truncate"
    /\ TextLen(Last(cin).content) = EMERGENCY_MSG_MAX_CHARS + 1
    /\ TextLen(Last(cout).content) < EMERGENCY_MSG_MAX_CHARS
    /\ \E i \in 1..Len(cin) :
         /\ cin[i].role = "tool" /\ TextLen(cin[i].content) > EMERGENCY_MSG_MAX_CHARS
         /\ cout[i].tool_call_id = cin[i].tool_call_id /\ cout[i] # cin[i]

\* a message with no content, no tool calls and no tool_call_id
IsBare(m) == m.content = << >> /\ m.tool_calls = NoCalls /\ m.tool_call_id = NoId

\* C16: _estimate_token_count is additive over the list with an overhead of 4 per
\* message: the empty list counts 0, every message adds its own count, which is
\* at least 4 and exactly 4 for a message with no content, tool calls or
\* tool_call_id, so appending a message never decreases the estimate.
C16_EstimatorAdditive ==
    op.name = "estimate" =>
        /\ (cin = << >> => cout = 0)
        /\ \A k \in 1..Len(cin) :
             LET upto == IF k = Len(cin) THEN cout
                         ELSE _estimate_token_count(SeqTake(cin, k))
                 added == upto - _estimate_token_count(SeqTake(cin, k - 1))
             IN /\ added >= 4
                /\ added = _estimate_token_count(<< cin[k] >>)
                /\ (IsBare(cin[k]) => added = 4)

C16_Witness ==
    /\ op.name = "estimate"
    /\ Len(cin) > 1 /\ IsBare(Last(cin))
    /\ cout = _estimate_token_count(SeqTake(cin, Len(cin) - 1)) + 4

\* persistent connections whose subprocess has been started and not terminated
OpenPersistent ==
    { c \in 1..Len(conns) : conns[c].kind = "persistent" /\ conns[c].running }

\* C17: connect() on a connected MCPClient is a no-op that keeps the same client
\* object, and after any sequence of connect() calls, interleaved ones included,
\* at most one persistent connection has been opened and not closed.
C17_OnePersistentConnection ==
    [][ invoked' \subseteq {"connect"} =>
          /\ Cardinality(OpenPersistent') <= 1
          /\ \A t \in 1..MaxTasks :
               (tasks[t].pc = "done" /\ tasks'[t] # tasks[t] /\ _client # NoConn) =>
                   /\ tasks'[t].pc = "done"
                   /\ UNCHANGED << _client, _transport, conns >> ]_vars

\* C18: a request on the persistent connection that raises ConnectionError or
\* EOFError sets _client and _transport to None, and the call, unless it is
\* cancelled, ends after exactly one attempt on a temporary connection, whose
\* outcome is the call's, with the persistent subprocess terminated; any other
\* error ends the call at once with that error, no attempt on a temporary
\* connection and the fields and connections untouched.
C18_RecoveryOnTransportError ==
    [][ \A t \in 1..MaxTasks :
          /\ (tasks[t].pc = "persistent_call" /\ tasks'[t] # tasks[t]) =>
                /\ tasks'[t].raised \in {"ConnectionError", "EOFError"} =>
                      /\ _client' = NoConn
                      /\ _transport' = NoConn
                      /\ tasks'[t].pc # "done"
                /\ tasks'[t].raised \in {"ValueError", "CancelledError"} =>
                      /\ tasks'[t].pc = "done"
                      /\ tasks'[t].outcome = tasks'[t].raised
                      /\ tasks'[t].attempts = 0
                      /\ UNCHANGED << _client, _transport, conns >>
          /\ (/\ tasks[t].pc # "done" /\ tasks'[t].pc = "done"
              /\ tasks'[t].raised \in {"ConnectionError", "EOFError"}
              /\ tasks[t].pc # "recover_exit") =>
                /\ tasks'[t].attempts = 1
                /\ tasks'[t].via = "temporary"
                /\ conns'[tasks'[t].conn].kind = "temporary"
                /\ tasks'[t].dropped # NoConn =>
                      /\ ~conns'[tasks'[t].dropped].running
                      /\ ~conns'[tasks'[t].dropped].entered ]_vars

C18_Witness ==
    \E t \in 1..MaxTasks :
        /\ tasks[t].pc = "done" /\ tasks[t].op = "acall_tool"
        /\ tasks[t].raised = "EOFError" /\ tasks[t].outcome = "result"
        /\ tasks[t].attempts = 1 /\ tasks[t].dropped # NoConn
        /\ ~conns[tasks[t].dropped].running
        /\ _client = NoConn /\ _transport = NoConn

\* C19: with no persistent connection open, alist_tools and acall_tool run on a
\* temporary connection of their own, never write _client or _transport, and
\* end, with a result, an error or a cancellation, with that transport
\* terminated; disconnect() with nothing connected returns at once and leaves
\* both fields None.
C19_TemporaryConnections ==
    [][ /\ "connect" \notin invoked' => (_client' = NoConn /\ _transport' = NoConn)
        /\ \A t \in 1..MaxTasks :
             /\ (/\ tasks'[t] # tasks[t] /\ tasks'[t].op \in Calls
                 /\ tasks'[t].via = "temporary" /\ tasks'[t].raised = "none") =>
                   /\ UNCHANGED << _client, _transport >>
                   /\ conns'[tasks'[t].conn].kind = "temporary"
                   /\ tasks'[t].attempts = 1
                   /\ tasks'[t].pc = "done" =>
                         /\ tasks'[t].outcome \in {"result"} \cup Errors
                         /\ ~conns'[tasks'[t].conn].running
                         /\ ~conns'[tasks'[t].conn].entered
             /\ (/\ tasks[t].pc = "done" /\ tasks'[t] # tasks[t]
                 /\ tasks'[t].op = "disconnect" /\ _client = NoConn) =>
                   /\ tasks'[t].pc = "done"
                   /\ tasks'[t].outcome = "result"
                   /\ _client' = NoConn /\ _transport' = NoConn
                   /\ UNCHANGED conns ]_vars

C19_Witness ==
    /\ "connect" \notin invoked /\ "disconnect" \in invoked
    /\ _client = NoConn /\ _transport = NoConn
    /\ \E t \in 1..MaxTasks :
         /\ tasks[t].pc = "done" /\ tasks[t].op = "alist_tools"
         /\ tasks[t].via = "temporary" /\ tasks[t].outcome = "CancelledError"
         /\ ~conns[tasks[t].conn].running

\* C20: build saves the project with status "building" before any processing
\* step runs; when every step succeeds the last status written is "ready"; when
\* a step after the creation of the project raises or reports an error the
\* status becomes "failed", the exception reaches the caller and "ready" is not
\* written; a health-check timeout only adds a warning and the build ends "ready".
C20_BuildStatus ==
    /\ build.steps # << >> => (build.written # << >> /\ build.written[1] = "building")
    /\ (build.pc = "done" /\ build.written # << >> /\ build.how = "") =>
          /\ build.outcome = "result"
          /\ Last(build.written) = "ready"
          /\ build.status = "ready"
          /\ build.steps = << "process_documents", "chunk_documents", "init_project",
                              "start_vectorstore", "load", "start_rag_service" >>
    /\ build.how \in {"raised", "reported"} =>
          /\ build.pc = "done"
          /\ build.outcome = "raised"
          /\ Last(build.written) = "failed"
          /\ build.status = "failed"
          /\ \A i \in 1..Len(build.written) : build.written[i] # "ready"
    /\ (build.errors # << >> /\ build.how \notin {"raised", "reported"}) =>
          /\ \A i \in 1..Len(build.written) : build.written[i] # "failed"
          /\ (build.pc = "done" /\ build.how = "") =>
                (build.outcome = "result" /\ Last(build.written) = "ready")

C20_Witness ==
    /\ build.pc = "done" /\ build.outcome = "raised"
    /\ build.how = "reported" /\ build.failed_step = "start_rag_service"
    /\ build.errors = << "qdrant" >>
    /\ build.written = << "building", "failed" >>

\* positions of the non-system messages whose text is longer than the cap
LongTexts(history) ==
    { i \in 1..Len(history) :
        /\ history[i].role # "system" /\ ~history[i].parts
        /\ TextLen(history[i].content) > EMERGENCY_MSG_MAX_CHARS }

\* what compress_history_if_needed assembles before any emergency truncation:
\* the system messages, the summary or notice of Branch B, the compressed kept turn
Assembled ==
    SystemsOf(cin)
    \o (IF op.gens = 1 THEN << cout[Len(SystemsOf(cin)) + 1] >> ELSE << >>)
    \o KeptTurn(cin)

\* C21: in both branches of compress_history_if_needed the size is recomputed
\* after intra-turn compression and a result still over the threshold is
\* emergency-truncated, so a returned conversation that was still over the
\* threshold after compression has no non-system text longer than
\* EMERGENCY_MSG_MAX_CHARS.
C21_TruncatedWhenStillOver ==
    (/\ op.name = "compress"
     /\ _estimate_token_count(cin) > HISTORY_TOKEN_THRESHOLD
     /\ _estimate_token_count(Assembled) > HISTORY_TOKEN_THRESHOLD) =>
        LongTexts(cout) = {}

\* position of the first user message, 0 if there is none
FirstUser(msgs) ==
    IF UserCount(msgs) = 0 THEN 0
    ELSE CHOOSE i \in 1..Len(msgs) :
           msgs[i].role = "user" /\ \A j \in 1..(i - 1) : msgs[j].role # "user"

C22_ReturnOrRetryOnce ==
    [][ /\ (mode = "respond" /\ pc = "gen" /\ pc' \notin {"gen", "aborted", "tools"}) =>
              /\ messages' = messages
              /\ \/ /\ pc' = "idle" /\ result'.kind = "returned"
                    /\ result'.text # << >>
                    /\ genCalls' = genCalls
                 \/ /\ pc' = "retry" /\ result' = NoResult
                    /\ genCalls' = genCalls + 1
        /\ (mode = "respond" /\ pc = "gen" /\ pc' = "tools") =>
              /\ supportsTools
              /\ pending' # << >>
              /\ genCalls' = genCalls
        /\ (pc = "retry" /\ pc' \notin {"retry", "aborted"}) =>
              /\ pc' = "idle" /\ result'.kind = "returned"
              /\ genCalls' = genCalls
              /\ UNCHANGED << messages, pending, idx, toolCalls >>
        /\ (mode' = "respond" => genCalls' <= max_iterations + 1) ]_vars

C22_Witness ==
    /\ mode = "respond" /\ pc = "idle"
    /\ iter = max_iterations - 1
    /\ genCalls = max_iterations + 1
    /\ result = Returned(Opaque("answer", ShortLen))

\* the stream of this iteration is exhausted and arespond_stream moves on
StreamExhausted == mode = "stream" /\ pc = "schunk" /\ pc' \in {"loop", "idle"}

\* C23 as stated: after a stream is exhausted a new stream is requested when a
\* chunk of it carried tool calls, otherwise the generator ends; at most
\* max_iterations streams are requested and the generator then ends without raising.
C23_NewStreamIffCarried ==
    [][ /\ StreamExhausted =>
              IF stream.carried
              THEN pc' = "loop" /\ result' = NoResult /\ Last(messages').role = "tool"
              ELSE pc' = "idle" /\ result'.kind = "returned"
        /\ (mode = "stream" /\ pc = "loop" /\ pc' # "loop") =>
              IF iter < max_iterations
              THEN stream'.requested = stream.requested + 1 /\ pc' # "idle"
              ELSE pc' = "idle" /\ result'.kind = "returned" /\ UNCHANGED stream
        /\ (mode' = "stream" => stream'.requested <= max_iterations) ]_vars

\* C23, with the capability the code asks for: after a stream is exhausted a new
\* stream is requested when a chunk of it carried tool calls and the provider
\* declares tool calling, otherwise the generator ends; at most max_iterations
\* streams are requested and the generator then ends without raising.
C23_NewStreamIffExecuted ==
    [][ /\ StreamExhausted =>
              IF stream.carried /\ supportsTools
              THEN pc' = "loop" /\ result' = NoResult /\ Last(messages').role = "tool"
              ELSE pc' = "idle" /\ result'.kind = "returned"
        /\ (mode = "stream" /\ pc = "loop" /\ pc' # "loop") =>
              IF iter < max_iterations
              THEN stream'.requested = stream.requested + 1 /\ pc' # "idle"
              ELSE pc' = "idle" /\ result'.kind = "returned" /\ UNCHANGED stream
        /\ (mode' = "stream" => stream'.requested <= max_iterations) ]_vars

C23_Witness ==
    /\ mode = "stream" /\ pc = "idle" /\ result = Returned(<< >>)
    /\ supportsTools /\ stream.carried
    /\ iter = max_iterations
    /\ stream.requested = max_iterations

\* the events of the first k calls of `pending` end the event sequence, a start
\* then an end (or error) event per call, followed by the start event of call
\* k + 1 when that call is being dispatched
EventsAtTail(k, started) ==
    LET need == 2 * k + (IF started THEN 1 ELSE 0)
        base == Len(events) - need
    IN /\ base >= 0
       /\ \A j \in 1..k :
            /\ events[base + 2 * j - 1] = Event("TOOL_CALL_START", pending[j].name, << >>)
            /\ events[base + 2 * j].type \in {"TOOL_CALL_END", "TOOL_CALL_ERROR"}
            /\ events[base + 2 * j].tool_name = pending[j].name
       /\ started => events[Len(events)] = Event("TOOL_CALL_START", pending[k + 1].name, << >>)

\* arespond_stream is working on the tool calls of a chunk, or has just
\* finished the last of them
HandlingChunkCalls ==
    /\ mode = "stream"
    /\ pc \in {"sstart", "sexec"} \/ (pc = "schunk" /\ dispatched # NoDispatch)

\* C24: while arespond_stream handles the tool calls of a chunk, the synthetic
\* assistant message with those calls is in the conversation before any
\* ToolCallStart of the chunk; when call k is dispatched its ToolCallStart is the
\* last event and the conversation ends with the synthetic message and the tool
\* messages of calls 1..k-1 only; each finished call has one tool message and one
\* ToolCallEnd or ToolCallError after its ToolCallStart, before the next start.
C24_StreamToolOrdering ==
    HandlingChunkCalls =>
        /\ pending # << >>
        /\ BlockAtTail(idx - 1)
        /\ EventsAtTail(idx - 1, pc = "sexec")
        /\ (pc \in {"sstart", "sexec"} => idx <= Len(pending))
        /\ (pc = "schunk" => idx = Len(pending) + 1)

C24_Witness ==
    /\ mode = "stream" /\ pc = "schunk" /\ dispatched # NoDispatch
    /\ Len(pending) = 2 /\ idx = 3
    /\ pending[1].name # pending[2].name
    /\ Len(events) > 4
    /\ BlockAtTail(2)

\* C25: _parse_tool_args hands back a mapping whatever the arguments are: a
\* mapping as it is, the mapping a str encodes, and the empty mapping for empty,
\* missing or any other input.
C25_ArgsAlwaysMapping ==
    op.name \in {"parse", "execute"} =>
        /\ op.args.py = "dict"
        /\ (op.raw.py = "dict" => op.args = op.raw)
        /\ (op.raw.py = "str" /\ op.raw.doc = "object" =>
              op.args = PyValue("dict", "", op.raw.keys))
        /\ (op.raw.py # "dict" /\ ~(op.raw.py = "str" /\ op.raw.doc = "object") =>
              op.args = EmptyDict)

\* C26: the tool message of a local tool whose handler is a coroutine function
\* holds the str the handler computes, as for a synchronous handler.
C26_AsyncHandlerAwaited ==
    (/\ op.name = "execute"
     /\ _find_tool(dispatched.name) = "local" /\ dispatched.name \in AsyncTools
     /\ dispatched.env.hook = "pass") =>
        /\ cout = HandlerValue("local", dispatched.name)
        /\ Last(messages).content = HandlerValue("local", dispatched.name)

MayBeAppended(m) ==
    \/ m.role = "tool"
    \/ m.role = "assistant" /\ m.content = << >> /\ m.tool_calls # NoCalls

\* C30: during an invocation of arespond or arespond_stream every message of the
\* conversation stays at its index, unmodified; the messages appended are
\* assistant messages with tool calls and empty text and tool messages; the step
\* that returns, or ends the generator, appends nothing.
C30_AppendOnly ==
    [][ pc # "idle" /\ mode \in {"respond", "stream"} =>
          /\ Len(messages') >= Len(messages)
          /\ SubSeq(messages', 1, Len(messages)) = messages
          /\ \A i \in (Len(messages) + 1)..Len(messages') : MayBeAppended(messages'[i])
          /\ (pc' \in {"idle", "aborted"} => messages' = messages) ]_vars

C30_Witness ==
    /\ mode = "stream" /\ pc = "idle"
    /\ result.kind = "returned"
    /\ \E i \in 1..Len(events) : events[i].type = "CONTENT"
    /\ Len(messages) >= 4
    /\ messages[1].role = "system" /\ messages[2].role = "user"
    /\ messages[3].role = "assistant" /\ messages[3].content = << >>
    /\ Last(messages).role = "tool"
    /\ ~stream.sawTools

=============================================================================
